---- MODULE Spec2Model ----
(***************************************************************************)
(* Verification model of the sentiment-bot ingestion core:                 *)
(*   - app/orchestration/tasks.py   (aggregate_social, _parse_window)       *)
(*   - app/storage/memory_storage.py, app/storage/db.py  (the post store)   *)
(*   - app/nlp/clean.py, app/nlp/bot_filter.py           (cleaning)         *)
(*   - app/trading/scanner.py, app/trading/backtest.py   (scan, backtest)   *)
(* Strings are sequences of one-character strings, times are integer hours  *)
(* relative to the moment of the call, polarities are integers and          *)
(* quotients are exact fractions <<numerator, denominator>>.                *)
(***************************************************************************)
EXTENDS Integers, Sequences, FiniteSets, TLC

VARIABLES
    \* ---- _parse_window as a function under test
    window,          \* the window string handed to _parse_window / aggregate_social
    pwResult,        \* what _parse_window(window) produced, NoValue before the call
    \* ---- the post store (InMemoryStorage fields; the tables of DB)
    posts,           \* _posts / social_posts: pk -> row
    post_index,      \* _post_index: <<source, platform_id>> -> pk
    post_counter,    \* _post_counter
    sentiment,       \* _sentiment / sentiment: pk -> row
    embeddings,      \* _embeddings / post_embeddings: pk -> emb
    lock,            \* _lock: the thread holding it, or NoThread
    now,             \* the clock read by datetime.now()
    \* ---- callers of the in-memory store
    tpc,             \* thread -> position inside the store method it runs
    targ,            \* thread -> the SocialPost argument of its upsert_post
    tloc,            \* thread -> the local pk of its upsert_post
    aggResult,       \* what the last aggregate call returned, NoValue once the caller moved on
    firstUpsert,     \* history: key -> the post of the first upsert_post that returned
    lastUpsert,      \* history: key -> the post of the latest upsert_post that returned
    returned,        \* history: key and returned pk of every completed upsert_post
    \* ---- one call of aggregate_social
    pc,              \* position in aggregate_social
    query,           \* the symbol argument
    inst,            \* the resolved instrument (inst_dict)
    since,           \* utcnow() - _parse_window(window)
    collected,       \* posts: the list of collected SocialPost objects
    sources_status,  \* sources_status
    invoked,         \* history: collector -> number of times it was called
    failedSrc,       \* history: collectors that raised
    delivered,       \* history: collector -> the posts it returned, as returned
    resolveFailed,   \* history: whether resolve raised
    clean_posts,     \* clean_posts, as references (indices) into collected
    filter_stats,    \* filter_stats
    cur,             \* loop position of the clean / persist loop
    processed_count, \* processed_count
    dbOpen,          \* whether DB() was constructed by aggregate_social
    result,          \* the returned dictionary, NoValue while none
    raised,          \* the exception that left aggregate_social, NoValue while none
    cleanFail,       \* history: indices of collected posts whose cleaning raised
    persistFail,     \* history: indices of collected posts whose persist/score/embed raised
    visited,         \* history: indices of collected posts the clean loop handled
    attempted,       \* history: indices of collected posts the persist loop handled
    nWrites,         \* history: store writes issued by this call
    nAggQueries,     \* history: aggregation queries issued by this call
    nCacheReads,     \* history: resolver cache reads issued by this call
    nCacheWrites,    \* history: resolver cache writes issued by this call
    \* ---- one call of extract_symbols
    cleanText,       \* the argument t
    cleanInst,       \* the argument inst
    cleanSymbols,    \* the returned list, NoValue before the call
    \* ---- one call of calculate_divergence_score
    scoreArgs,       \* the arguments
    scoreResult,     \* what the call returned or raised, NoValue before the call
    \* ---- one call of scan_market
    scanPc,          \* position in scan_market
    scanSymbols,     \* the argument symbols
    min_conviction,  \* the argument min_conviction, in hundredths
    max_results,     \* the argument max_results
    opportunities,   \* the local list opportunities
    scanSeen,        \* history: per loop iteration, what the iteration read and did
    scanResult,      \* the returned list, NoValue while none
    \* ---- one call of backtest_strategy
    btPc,            \* position in backtest_strategy
    btSymbols,       \* the argument symbols
    hold_days,       \* the argument hold_days
    all_trades,      \* the local list all_trades
    btSeen,          \* history: per loop iteration, the price history read and the outcome
    btResult,        \* the returned dictionary, NoValue while none
    \* ---- calls of resolve on one store
    resolver_cache,  \* _resolver_cache / table resolver_cache: query -> row
    cacheBackend,    \* which store class holds the cache: "memory" or "db"
    resLast,         \* history: the latest call of resolve, NoValue before the first
    cacheWrites,     \* history: query -> the latest cache_resolution for it and its reads
    \* ---- calls of the methods of one InMemoryStorage
    memLast,         \* history: the latest method call, NoValue before the first
    lastScore,       \* history: post id -> the score of the latest upsert_sentiment for it
    \* ---- one call of a source collector
    fetchSource,     \* which collector runs: "x", "stocktwits" or "discord"
    fetchPc,         \* position in the collector
    fetchRequests,   \* history: HTTP requests sent so far
    fetchPosts,      \* len(posts), the local list
    current_page,    \* stocktwits: current_page; discord: the index of `for _ in range(2)`
    fetchChannels,   \* discord: channels of the guild still to read, the current one included
    fetchResult      \* the returned list (its length), NoValue while none

windowVars == <<window, pwResult>>
storeVars  == <<posts, post_index, post_counter, sentiment, embeddings, lock, now>>
threadVars == <<tpc, targ, tloc, aggResult, firstUpsert, lastUpsert, returned>>
pipeVars   == <<pc, query, inst, since, collected, sources_status, invoked, failedSrc,
                delivered, resolveFailed,
                clean_posts, filter_stats, cur, processed_count, dbOpen, result, raised,
                cleanFail, persistFail, visited, attempted, nWrites, nAggQueries,
                nCacheReads, nCacheWrites>>
cleanVars  == <<cleanText, cleanInst, cleanSymbols>>
\* the variables of the calls of single functions and of the trading module
scoreVars  == <<scoreArgs, scoreResult>>
scanVars   == <<scanPc, scanSymbols, min_conviction, max_results, opportunities,
                scanSeen, scanResult>>
btVars     == <<btPc, btSymbols, hold_days, all_trades, btSeen, btResult>>
tradeVars  == <<scanVars, btVars>>
resolveVars == <<resolver_cache, cacheBackend, resLast, cacheWrites>>
memVars    == <<memLast, lastScore>>
fetchVars  == <<fetchSource, fetchPc, fetchRequests, fetchPosts, current_page,
                fetchChannels, fetchResult>>
lateVars   == <<resolveVars, memVars, fetchVars>>
unitVars   == <<cleanVars, scoreVars, tradeVars, lateVars>>
vars == <<windowVars, storeVars, threadVars, pipeVars, unitVars>>

NoValue  == [kind |-> "none"]
NoThread == 0

(***************************************************************************)
(* Bounds of the model.                                                     *)
(***************************************************************************)
MaxWindowLen == 3      \* longest window string drawn for _parse_window
MaxStorePosts == 3     \* rows the store specifications create
MaxNow == 1            \* ticks of the clock in the store specifications
MaxTextLen == 7        \* longest text drawn for extract_symbols
MaxCollected == 2      \* posts all collectors together return in one call

(***************************************************************************)
(* Strings.                                                                 *)
(***************************************************************************)
DigitChars == <<"0", "1", "2", "3", "4", "5", "6", "7", "8", "9">>
LowerChars == <<"a", "b", "c", "d", "e", "f", "g", "h", "i", "j", "k", "l", "m",
                "n", "o", "p", "q", "r", "s", "t", "u", "v", "w", "x", "y", "z">>
UpperChars == <<"A", "B", "C", "D", "E", "F", "G", "H", "I", "J", "K", "L", "M",
                "N", "O", "P", "Q", "R", "S", "T", "U", "V", "W", "X", "Y", "Z">>

Range(s) == {s[i] : i \in DOMAIN s}
IsDigit(c) == c \in Range(DigitChars)
IsUpper(c) == c \in Range(UpperChars)
IsLower(c) == c \in Range(LowerChars)
IndexIn(s, c) == CHOOSE i \in DOMAIN s : s[i] = c

\* str.lower() / str.upper() on one character
LowerChar(c) == IF IsUpper(c) THEN LowerChars[IndexIn(UpperChars, c)] ELSE c
UpperChar(c) == IF IsLower(c) THEN UpperChars[IndexIn(LowerChars, c)] ELSE c
UpperStr(s) == [i \in DOMAIN s |-> UpperChar(s[i])]

\* s[:-1] and s[-1]
ButLast(s) == IF Len(s) = 0 THEN <<>> ELSE SubSeq(s, 1, Len(s) - 1)
LastChar(s) == s[Len(s)]

\* needle in hay (substring test)
Contains(hay, needle) ==
    \E i \in 1..(Len(hay) - Len(needle) + 1) : SubSeq(hay, i, i + Len(needle) - 1) = needle

(***************************************************************************)
(* int(s) for a string of digits with an optional sign.                     *)
(***************************************************************************)
RECURSIVE DigitsValue(_)
DigitsValue(s) ==
    IF Len(s) = 0 THEN 0
    ELSE 10 * DigitsValue(ButLast(s)) + (IndexIn(DigitChars, LastChar(s)) - 1)

PyInt(s) ==
    LET signed == Len(s) > 0 /\ s[1] \in {"-", "+"}
        body   == IF signed THEN Tail(s) ELSE s
    IN  IF Len(body) > 0 /\ \A i \in DOMAIN body : IsDigit(body[i])
        THEN [ok |-> TRUE, val |-> IF signed /\ s[1] = "-" THEN 0 - DigitsValue(body)
                                                             ELSE DigitsValue(body)]
        ELSE [ok |-> FALSE, val |-> 0]

(***************************************************************************)
(* _parse_window: a duration in hours, or the ValueError it raises.         *)
(***************************************************************************)
Duration(h) == [kind |-> "timedelta", hours |-> h]
ValueError  == [kind |-> "ValueError", hours |-> 0]

\* variant: the unit d is read as hours
parse_window_days_as_hours(w) ==
    LET n == PyInt(ButLast(w))
    IN  IF ~n.ok THEN ValueError
        ELSE LET unit == LowerChar(LastChar(w))
             IN  IF unit = "h" \/ unit = "d" THEN Duration(n.val) ELSE Duration(24)

parse_window(w) ==
    LET n == PyInt(ButLast(w))
    IN  IF ~n.ok THEN ValueError
        ELSE LET unit == LowerChar(LastChar(w))
             IN  IF unit = "h" THEN Duration(n.val)
                 ELSE IF unit = "d" THEN Duration(24 * n.val)
                 ELSE Duration(24)

(***************************************************************************)
(* Text cleaning: app/nlp/clean.py and app/nlp/bot_filter.py.               *)
(***************************************************************************)
IsSpace(c) == c \in {" ", "\n", "\t"}

\* first index >= i of s holding whitespace, Len(s) + 1 when there is none
RECURSIVE NonSpaceEnd(_, _)
NonSpaceEnd(s, i) ==
    IF i > Len(s) \/ IsSpace(s[i]) THEN i ELSE NonSpaceEnd(s, i + 1)

HasPrefixAt(s, i, pre) ==
    i + Len(pre) - 1 <= Len(s) /\ SubSeq(s, i, i + Len(pre) - 1) = pre

\* length of the scheme of a match of https?://\S+ at i, 0 when there is no match
UrlSchemeAt(s, i) ==
    LET long  == <<"h", "t", "t", "p", "s", ":", "/", "/">>
        short == <<"h", "t", "t", "p", ":", "/", "/">>
        then(n) == i + n <= Len(s) /\ ~IsSpace(s[i + n])
    IN  IF HasPrefixAt(s, i, long) /\ then(Len(long)) THEN Len(long)
        ELSE IF HasPrefixAt(s, i, short) /\ then(Len(short)) THEN Len(short)
        ELSE 0

\* re.sub(r'https?://\S+', '', t)
RECURSIVE RemoveUrls(_, _)
RemoveUrls(s, i) ==
    IF i > Len(s) THEN <<>>
    ELSE IF UrlSchemeAt(s, i) > 0 THEN RemoveUrls(s, NonSpaceEnd(s, i + UrlSchemeAt(s, i)))
    ELSE <<s[i]>> \o RemoveUrls(s, i + 1)

\* first index >= i of s holding no whitespace, Len(s) + 1 when there is none
RECURSIVE SpaceEnd(_, _)
SpaceEnd(s, i) ==
    IF i > Len(s) \/ ~IsSpace(s[i]) THEN i ELSE SpaceEnd(s, i + 1)

\* re.sub(r'\s+', ' ', t)
RECURSIVE CollapseSpace(_, _)
CollapseSpace(s, i) ==
    IF i > Len(s) THEN <<>>
    ELSE IF IsSpace(s[i]) THEN <<" ">> \o CollapseSpace(s, SpaceEnd(s, i))
    ELSE <<s[i]>> \o CollapseSpace(s, i + 1)

\* t.strip()
RECURSIVE StripRight(_)
StripRight(s) ==
    IF Len(s) > 0 /\ IsSpace(LastChar(s)) THEN StripRight(ButLast(s)) ELSE s

Strip(s) ==
    LET b == SpaceEnd(s, 1)
    IN  IF b > Len(s) THEN <<>> ELSE StripRight(SubSeq(s, b, Len(s)))

normalize_post(t) == Strip(CollapseSpace(RemoveUrls(t, 1), 1))

\* number of [A-Z] characters of s starting at i
RECURSIVE UpperRun(_, _)
UpperRun(s, i) ==
    IF i > Len(s) \/ ~IsUpper(s[i]) THEN 0 ELSE 1 + UpperRun(s, i + 1)

\* variant: the pattern without its negative lookahead
AnyFollows(t, j) == TRUE

\* (?![A-Z]) at position j
NotFollowedByUpper(t, j) == j > Len(t) \/ ~IsUpper(t[j])

\* the length of the match of \$([A-Z]{1,5})(?![A-Z]) that starts at j, without the
\* $: the greedy quantifier gives the longest length the lookahead accepts; 0 is no match
CashtagLenAt(t, j) ==
    LET lens == {k \in 1..5 : /\ j + k <= Len(t)
                              /\ \A m \in 1..k : IsUpper(t[j + m])
                              /\ NotFollowedByUpper(t, j + k + 1)}
    IN  IF t[j] # "$" \/ lens = {} THEN 0
        ELSE CHOOSE k \in lens : \A l \in lens : l <= k

\* re.findall(r'\$([A-Z]{1,5})(?![A-Z])', t) scanning from position j: the groups of
\* the non-overlapping matches, left to right
RECURSIVE FindAllCashtags(_, _)
FindAllCashtags(t, j) ==
    IF j > Len(t) THEN <<>>
    ELSE IF CashtagLenAt(t, j) = 0 THEN FindAllCashtags(t, j + 1)
    ELSE <<SubSeq(t, j + 1, j + CashtagLenAt(t, j))>>
             \o FindAllCashtags(t, j + CashtagLenAt(t, j) + 1)

\* set(re.findall(...))
Cashtags(t) == Range(FindAllCashtags(t, 1))

extract_symbols(t, i) ==
    LET tickers == Cashtags(t)
        bySym   == Contains(UpperStr(t), i.symbol) \/ i.symbol \in tickers
        byName  == Len(i.company_name) > 0 /\ Contains(UpperStr(t), UpperStr(i.company_name))
    IN  tickers \cup (IF bySym \/ byName THEN {i.symbol} ELSE {})

CountChar(s, c) == Cardinality({i \in DOMAIN s : s[i] = c})

\* variant: only short posts that mention a symbol count as bots
IsShortSymbolPost(post) == Len(post.text) < 20 /\ Cardinality(post.symbols) > 0

is_probable_bot(post) ==
    \/ Len(post.text) < 20 /\ Cardinality(post.symbols) > 0
    \/ CountChar(post.text, "$") > 5

(***************************************************************************)
(* score_text, restricted to texts with at most one lexicon word: the       *)
(* polarity is the word's weight (moon 2.0, crash -2.0) clamped to [-1, 1], *)
(* and 0 when the text has no lexicon word.                                 *)
(***************************************************************************)
score_text(t) ==
    LET low == [i \in DOMAIN t |-> LowerChar(t[i])]
    IN  [polarity |-> IF Contains(low, <<"m", "o", "o", "n">>) THEN 1
                      ELSE IF Contains(low, <<"c", "r", "a", "s", "h">>) THEN -1
                      ELSE 0]

\* compute_embedding: deterministic in the text; the vector itself is opaque
compute_embedding(t) == [of |-> t]

(***************************************************************************)
(* The texts the collectors may deliver.                                    *)
(***************************************************************************)
\* "$AAPL  to the moon soon http://t.co/x1": a cashtag of the instrument, long enough, with a URL and a double blank
TextGood ==
    <<"$", "A", "A", "P", "L", " ", " ", "t", "o", " ", "t", "h", "e", " ", "m", "o",
      "o", "n", " ", "s", "o", "o", "n", " ", "h", "t", "t", "p", ":", "/", "/", "t",
      ".", "c", "o", "/", "x", "1">>
\* "$AAPL will crash hard\nvery soon": a cashtag of the instrument, long enough, negative, with a line break
TextCrash ==
    <<"$", "A", "A", "P", "L", " ", "w", "i", "l", "l", " ", "c", "r", "a", "s", "h",
      " ", "h", "a", "r", "d", "\n", "v", "e", "r", "y", " ", "s", "o", "o", "n">>
\* "markets are quiet today": no symbol at all
TextNoSym ==
    <<"m", "a", "r", "k", "e", "t", "s", " ", "a", "r", "e", " ", "q", "u", "i", "e",
      "t", " ", "t", "o", "d", "a", "y">>
\* "$AAPL moon": a cashtag and fewer than 20 characters
TextShort ==
    <<"$", "A", "A", "P", "L", " ", "m", "o", "o", "n">>
\* "$TSLA to the moon very soon": only the cashtag of another instrument
TextOther ==
    <<"$", "T", "S", "L", "A", " ", "t", "o", " ", "t", "h", "e", " ", "m", "o", "o",
      "n", " ", "v", "e", "r", "y", " ", "s", "o", "o", "n">>

\* "$$$$$$ markets are quiet today": six dollar signs and no symbol
TextDollars ==
    <<"$", "$", "$", "$", "$", "$", " ", "m", "a", "r", "k", "e", "t", "s", " ", "a",
      "r", "e", " ", "q", "u", "i", "e", "t", " ", "t", "o", "d", "a", "y">>
\* "$AAPL $AAPL $AAPL $AAPL $AAPL $AAPL": the instrument's cashtag six times
TextSpam ==
    <<"$", "A", "A", "P", "L", " ", "$", "A", "A", "P", "L", " ", "$", "A", "A", "P",
      "L", " ", "$", "A", "A", "P", "L", " ", "$", "A", "A", "P", "L", " ", "$", "A",
      "A", "P", "L">>

SymAAPL == <<"A", "A", "P", "L">>
SymTSLA == <<"T", "S", "L", "A">>

(***************************************************************************)
(* Exact fractions <<n, d>> with d > 0, in lowest terms.                    *)
(***************************************************************************)
Abs(n) == IF n < 0 THEN 0 - n ELSE n

RECURSIVE Gcd(_, _)
Gcd(a, b) == IF b = 0 THEN a ELSE Gcd(b, a % b)

Frac(n, d) ==
    LET g == Gcd(Abs(n), Abs(d))
        sg == IF d < 0 THEN 0 - 1 ELSE 1
    IN  <<(sg * n) \div g, (sg * d) \div g>>

FracAdd(a, b) == Frac(a[1] * b[2] + b[1] * a[2], a[2] * b[2])
FracTimesInt(a, k) == Frac(a[1] * k, a[2])
FracOverInt(a, k) == Frac(a[1], a[2] * k)
FracZero == Frac(0, 1)

RECURSIVE SumSeq(_)
SumSeq(s) == IF Len(s) = 0 THEN 0 ELSE s[1] + SumSeq(Tail(s))

RECURSIVE SumFracs(_)
SumFracs(s) == IF Len(s) = 0 THEN FracZero ELSE FracAdd(s[1], SumFracs(Tail(s)))

\* the elements of a finite set of integers, ascending
RECURSIVE Ascending(_)
Ascending(S) ==
    IF S = {} THEN <<>>
    ELSE LET m == CHOOSE x \in S : \A y \in S : x <= y
         IN  <<m>> \o Ascending(S \ {m})

\* the elements of a finite set of strings in some fixed order
RECURSIVE Listed(_)
Listed(S) ==
    IF S = {} THEN <<>>
    ELSE LET m == CHOOSE x \in S : TRUE
         IN  <<m>> \o Listed(S \ {m})

(***************************************************************************)
(* The post store.                                                          *)
(***************************************************************************)
Key(p) == <<p.source, p.platform_id>>

\* the row upsert_post writes for a new post
NewRow(pk, p, t) ==
    [id |-> pk, source |-> p.source, platform_id |-> p.platform_id,
     created_at |-> p.created_at, ingested_at |-> t, text |-> p.text,
     symbols |-> p.symbols]

SentimentRow(pk, s) == [post_pk |-> pk, polarity |-> s.polarity]

EmptyMap == [x \in {} |-> NoValue]
Put(f, k, v) == [x \in DOMAIN f \cup {k} |-> IF x = k THEN v ELSE f[x]]

StoreInit ==
    /\ posts = EmptyMap
    /\ post_index = EmptyMap
    /\ post_counter = 1
    /\ sentiment = EmptyMap
    /\ embeddings = EmptyMap
    /\ lock = NoThread
    /\ now = 0

(***************************************************************************)
(* InMemoryStorage.aggregate                                                *)
(***************************************************************************)
\* variant: a post created exactly at `since` is left out
MemMatchesAfter(pk, symbol, sinceArg) ==
    /\ symbol \in posts[pk].symbols
    /\ posts[pk].created_at > sinceArg
    /\ pk \in DOMAIN sentiment

\* if symbol in post['symbols'] and post['created_at'] >= since: if pk in self._sentiment:
MemMatches(pk, symbol, sinceArg) ==
    /\ symbol \in posts[pk].symbols
    /\ posts[pk].created_at >= sinceArg
    /\ pk \in DOMAIN sentiment

MemAggregate(symbol, sinceArg) ==
    LET byPk == Ascending(DOMAIN posts)
        Matches(pk) == MemMatches(pk, symbol, sinceArg)
        matching_posts == SelectSeq(byPk, Matches)
        srcs == {posts[matching_posts[i]].source : i \in DOMAIN matching_posts}
        OfSource(src) == LET Is(pk) == posts[pk].source = src
                         IN  SelectSeq(matching_posts, Is)
        source_counts == [src \in srcs |-> Len(OfSource(src))]
        source_polarities ==
            [src \in srcs |-> [i \in DOMAIN OfSource(src) |->
                                   sentiment[OfSource(src)[i]].polarity]]
        order == Listed(srcs)
        total_count == SumSeq([i \in DOMAIN order |-> source_counts[order[i]]])
        total_polarity == SumSeq([i \in DOMAIN order |-> SumSeq(source_polarities[order[i]])])
    IN  IF Len(matching_posts) = 0
        THEN [symbol |-> symbol, window_since |-> sinceArg, count |-> 0,
              weighted_sentiment |-> FracZero, sources |-> EmptyMap]
        ELSE [symbol |-> symbol, window_since |-> sinceArg, count |-> total_count,
              weighted_sentiment |-> IF total_count > 0 THEN Frac(total_polarity, total_count)
                                                        ELSE FracZero,
              sources |-> source_counts]

(***************************************************************************)
(* DB.aggregate: the GROUP BY query and the arithmetic on its rows          *)
(***************************************************************************)
DBAggregate(symbol, sinceArg) ==
    LET joined == {pk \in DOMAIN posts \cap DOMAIN sentiment :
                       symbol \in posts[pk].symbols /\ posts[pk].created_at >= sinceArg}
        Group(src) == {pk \in joined : posts[pk].source = src}
        groups == Listed({posts[pk].source : pk \in joined})
        Polarities(src) == [i \in DOMAIN Ascending(Group(src)) |->
                                sentiment[Ascending(Group(src))[i]].polarity]
        \* one result row per source: COUNT(*), AVG(s.polarity), p.source, COUNT(*)
        results == [i \in DOMAIN groups |->
                       [count |-> Cardinality(Group(groups[i])),
                        avg_polarity |-> Frac(SumSeq(Polarities(groups[i])),
                                              Cardinality(Group(groups[i]))),
                        source |-> groups[i],
                        source_count |-> Cardinality(Group(groups[i]))]]
        total_count == SumSeq([i \in DOMAIN results |-> results[i].source_count])
        total_polarity ==
            SumFracs([i \in DOMAIN results |->
                         IF results[i].avg_polarity # FracZero
                         THEN FracTimesInt(results[i].avg_polarity, results[i].source_count)
                         ELSE FracZero])
    IN  IF Len(results) = 0
        THEN [symbol |-> symbol, window_since |-> sinceArg, count |-> 0,
              weighted_sentiment |-> FracZero, sources |-> EmptyMap]
        ELSE [symbol |-> symbol, window_since |-> sinceArg, count |-> total_count,
              weighted_sentiment |-> IF total_count > 0 THEN FracOverInt(total_polarity, total_count)
                                                        ELSE FracZero,
              sources |-> [src \in Range(groups) |-> Cardinality(Group(src))]]

(***************************************************************************)
(* Idle values of the parts a specification does not exercise.              *)
(***************************************************************************)
Threads == {1, 2}
Collectors == <<"x", "reddit", "stocktwits", "discord">>

ThreadInit ==
    /\ tpc = [t \in Threads |-> "idle"]
    /\ targ = [t \in Threads |-> NoValue]
    /\ tloc = [t \in Threads |-> 0]
    /\ aggResult = NoValue
    /\ firstUpsert = EmptyMap
    /\ lastUpsert = EmptyMap
    /\ returned = {}

CleanInit ==
    /\ cleanText = <<>>
    /\ cleanInst = NoValue
    /\ cleanSymbols = NoValue

ScoreInit ==
    /\ scoreArgs = NoValue
    /\ scoreResult = NoValue

ScanInit ==
    /\ scanPc = "idle"
    /\ scanSymbols = <<>>
    /\ min_conviction = 0
    /\ max_results = 0
    /\ opportunities = <<>>
    /\ scanSeen = <<>>
    /\ scanResult = NoValue

BacktestInit ==
    /\ btPc = "idle"
    /\ btSymbols = <<>>
    /\ hold_days = 0
    /\ all_trades = <<>>
    /\ btSeen = <<>>
    /\ btResult = NoValue

TradeInit == ScanInit /\ BacktestInit

ResolveInit ==
    /\ resolver_cache = EmptyMap
    /\ cacheBackend = "memory"
    /\ resLast = NoValue
    /\ cacheWrites = EmptyMap

MemInit ==
    /\ memLast = NoValue
    /\ lastScore = EmptyMap

FetchInit ==
    /\ fetchSource = "x"
    /\ fetchPc = "idle"
    /\ fetchRequests = 0
    /\ fetchPosts = 0
    /\ current_page = 0
    /\ fetchChannels = 0
    /\ fetchResult = NoValue

LateInit == ResolveInit /\ MemInit /\ FetchInit

UnitInit == CleanInit /\ ScoreInit /\ TradeInit /\ LateInit

PipeInit ==
    /\ pc = "idle"
    /\ query = <<>>
    /\ inst = NoValue
    /\ since = 0
    /\ collected = <<>>
    /\ sources_status = EmptyMap
    /\ invoked = [c \in Range(Collectors) |-> 0]
    /\ failedSrc = {}
    /\ delivered = [c \in Range(Collectors) |-> <<>>]
    /\ resolveFailed = FALSE
    /\ clean_posts = <<>>
    /\ filter_stats = NoValue
    /\ cur = 0
    /\ processed_count = 0
    /\ dbOpen = FALSE
    /\ result = NoValue
    /\ raised = NoValue
    /\ cleanFail = {}
    /\ persistFail = {}
    /\ visited = {}
    /\ attempted = {}
    /\ nWrites = 0
    /\ nAggQueries = 0
    /\ nCacheReads = 0
    /\ nCacheWrites = 0

(***************************************************************************)
(* _parse_window applied to every short string over WindowAlphabet.         *)
(***************************************************************************)
WindowAlphabet == {"0", "2", "4", "7", "-", "h", "d", "H", "x", "y", "z"}
WindowStrings == UNION {[1..n -> WindowAlphabet] : n \in 0..MaxWindowLen}

InitWindow ==
    /\ window \in WindowStrings
    /\ pwResult = NoValue
    /\ StoreInit /\ ThreadInit /\ PipeInit /\ UnitInit

ParseWindowCall ==
    /\ pc = "idle"
    /\ pwResult = NoValue
    /\ pwResult' = parse_window(window)
    /\ UNCHANGED <<window, storeVars, threadVars, pipeVars>>
    /\ UNCHANGED unitVars

NextWindow == ParseWindowCall

SpecWindow == InitWindow /\ [][NextWindow]_vars

(***************************************************************************)
(* extract_symbols applied to every short text over CleanAlphabet.          *)
(***************************************************************************)
CleanAlphabet == {"$", "A", "a", " "}
CleanTexts == UNION {[1..n -> CleanAlphabet] : n \in 0..MaxTextLen}
CleanInsts ==
    {[symbol |-> <<"A", "A">>, company_name |-> <<"A", "a">>],
     [symbol |-> <<"M", "S", "F", "T">>, company_name |-> <<"M", "i", "c", "r", "o", "s", "o", "f", "t">>]}

\* list(s): the elements of a set in any order
ListsOf(S) ==
    {l \in [1..Cardinality(S) -> S] : \A x \in S : \E i \in DOMAIN l : l[i] = x}

InitClean ==
    /\ cleanText \in CleanTexts
    /\ cleanInst \in CleanInsts
    /\ cleanSymbols = NoValue
    /\ window = <<>>
    /\ pwResult = NoValue
    /\ StoreInit /\ ThreadInit /\ PipeInit /\ ScoreInit /\ TradeInit /\ LateInit

\* return list(tickers)
ExtractSymbolsCall ==
    /\ cleanSymbols = NoValue
    /\ cleanInst # NoValue
    /\ cleanSymbols' \in {[kind |-> "list", items |-> l] :
                            l \in ListsOf(extract_symbols(cleanText, cleanInst))}
    /\ UNCHANGED <<cleanText, cleanInst, scoreVars, tradeVars, lateVars, windowVars, storeVars,
                   threadVars, pipeVars>>

NextClean == ExtractSymbolsCall

SpecClean == InitClean /\ [][NextClean]_vars

(***************************************************************************)
(* The opportunity scanner (app/trading/scanner.py).  Polarity, confidence  *)
(* and conviction are in hundredths, price changes in percent, prices in    *)
(* cents, max_loss_dollars in dollars.                                      *)
(***************************************************************************)
\* class PriceData: the fields the scanner reads or could read
PriceData(sym, price, pct7, pct30) ==
    [symbol |-> sym, current_price |-> price, price_change_pct_7d |-> pct7,
     price_change_pct_30d |-> pct30, is_up_trend |-> pct7 > 0]

\* whether obj.<name> finds an attribute; when it does not, AttributeError is raised
HasAttr(obj, name) == name \in DOMAIN obj

Raised(type, what) == [kind |-> "raise", type |-> type, what |-> what]
None == [kind |-> "None"]

Min(a, b) == IF a <= b THEN a ELSE b

\* lines 197-251 of calculate_divergence_score, entered with the base conviction and
\* the signal type of the matched pattern
ScoreOpportunity(symbol, pol, conf, pd, max_loss, base, signal_type) ==
    LET conviction_score == Min(1000, 100 * base + conf * 2)
        entry_price == pd.current_price
        \* stop_loss = entry_price * 0.9; risk_per_share = entry_price - stop_loss
        stop_loss == Frac(9 * entry_price, 10)
        risk_per_share == Frac(entry_price, 10)
        \* int(max_loss_dollars / risk_per_share) if risk_per_share > 0 else 0
        position_size == IF entry_price > 0 THEN (max_loss * 100 * 10) \div entry_price ELSE 0
    IN  IF conviction_score < 350 THEN None
        ELSE IF position_size <= 0 THEN None
        ELSE IF ~HasAttr(pd, "price_change_pct_7d") THEN Raised("AttributeError", "price_change_pct_7d")
        ELSE [kind |-> "OpportunityScore",
              symbol |-> symbol,
              conviction_score |-> conviction_score,
              sentiment_polarity |-> pol,
              sentiment_confidence |-> conf,
              price_change_7d |-> pd.price_change_pct_7d,
              price_change_30d |-> pd.price_change_pct_30d,
              entry_price |-> entry_price,
              stop_loss |-> stop_loss,
              target_1 |-> Frac(12 * entry_price, 10),
              target_2 |-> Frac(15 * entry_price, 10),
              target_3 |-> Frac(2 * entry_price, 1),
              \* int(position_size * entry_price), in dollars
              position_size_dollars |-> (position_size * entry_price) \div 100,
              signal_type |-> signal_type]

\* calculate_divergence_score: the patterns are tried in order, the first match wins.
\* Line 165 reads price_data.price_change_30d and line 175 price_data.price_change_7d,
\* which are no fields of PriceData.
calculate_divergence_score(symbol, pol, conf, pd, max_loss) ==
    IF ~HasAttr(pd, "price_change_30d") THEN Raised("AttributeError", "price_change_30d")
    ELSE IF pd.price_change_30d < 0 - 15 /\ pol > 60
         THEN ScoreOpportunity(symbol, pol, conf, pd, max_loss, 6, "reversal")
    ELSE IF ~HasAttr(pd, "price_change_7d") THEN Raised("AttributeError", "price_change_7d")
    ELSE IF pd.price_change_7d > 15 /\ pol > 65
         THEN ScoreOpportunity(symbol, pol, conf, pd, max_loss, 5, "momentum")
    ELSE IF pol > 70 /\ 0 - 10 < pd.price_change_7d /\ pd.price_change_7d < 10
         THEN ScoreOpportunity(symbol, pol, conf, pd, max_loss, 4, "emerging_catalyst")
    ELSE None

ScorePolarities == {0, 60, 61, 66, 70, 71}
ScoreConfidences == {30, 50}
ScorePrices == {0, 10000}
ScoreChanges7d == {0 - 10, 0, 16}
ScoreChanges30d == {0 - 20, 0 - 15, 0}
ScoreMaxLoss == {2000}

InitScore ==
    /\ scoreArgs \in [symbol : {SymAAPL}, sentiment_polarity : ScorePolarities,
                      sentiment_confidence : ScoreConfidences,
                      price_data : {PriceData(SymAAPL, p, c7, c30) :
                                        p \in ScorePrices, c7 \in ScoreChanges7d,
                                        c30 \in ScoreChanges30d},
                      max_loss_dollars : ScoreMaxLoss]
    /\ scoreResult = NoValue
    /\ window = <<>>
    /\ pwResult = NoValue
    /\ StoreInit /\ ThreadInit /\ PipeInit /\ CleanInit /\ TradeInit /\ LateInit

DivergenceScoreCall ==
    /\ scoreArgs # NoValue
    /\ scoreResult = NoValue
    /\ scoreResult' = calculate_divergence_score(scoreArgs.symbol,
                          scoreArgs.sentiment_polarity, scoreArgs.sentiment_confidence,
                          scoreArgs.price_data, scoreArgs.max_loss_dollars)
    /\ UNCHANGED <<scoreArgs, cleanVars, tradeVars, lateVars, windowVars, storeVars, threadVars, pipeVars>>

NextScore == DivergenceScoreCall

SpecScore == InitScore /\ [][NextScore]_vars

(***************************************************************************)
(* scan_market (scanner.py 254-319).  aggregate_social and get_price_data   *)
(* are the environment: each loop iteration draws what they hand back.      *)
(***************************************************************************)
MaxScanSymbols == 2    \* longest list of symbols handed to scan_market

HasKey(d, key) == key \in DOMAIN d
\* d.get(key, default)
DictGet(d, key, default) == IF HasKey(d, key) THEN d[key] ELSE default
IsRaised(x) == HasKey(x, "kind") /\ x.kind = "raise"

ScanPostCounts == {4, 5}
ScanSentiments == {0, 70}

\* what aggregate_social(symbol, window="7d") hands back: an exception (tasks.py 55,
\* 204-206), an early result carrying "error" (tasks.py 115-122, 162-169), or the full
\* result (tasks.py 195-203); of the full result's keys only those a caller reads for
\* the sentiment are kept, and it has no key "sentiment"
SentimentResults(symbol) ==
    {Raised("ValueError", "aggregate_social")}
    \cup {[symbol |-> symbol, posts_processed |-> 0,
           error |-> "No posts found for this symbol"]}
    \cup {[symbol |-> symbol, count |-> n, weighted_sentiment |-> ws,
           posts_processed |-> n] : n \in ScanPostCounts, ws \in ScanSentiments}

\* what get_price_data(symbol) hands back: None (no bars, or an exception it caught),
\* or the PriceData of a stock at $100 that fell 20% in 30 days
PriceResults(symbol) == {None, PriceData(symbol, 10000, 0, 0 - 20)}

\* one iteration of `for i, symbol in enumerate(symbols)` (lines 276-308): the record
\* of what it read and did; outcome "appended" carries the opportunity it appended
ScanIteration(symbol, sentiment_result, price_data, min_conv) ==
    IF IsRaised(sentiment_result)
    THEN [symbol |-> symbol, outcome |-> "raised", sentiment_result |-> sentiment_result]
    ELSE IF HasKey(sentiment_result, "error")
            \/ DictGet(sentiment_result, "posts_processed", 0) < 5
    THEN [symbol |-> symbol, outcome |-> "insufficient",
          sentiment_result |-> sentiment_result]
    ELSE LET sentiment_data == DictGet(sentiment_result, "sentiment", EmptyMap)
             sentiment_polarity == DictGet(sentiment_data, "avg_polarity", 0)
             sentiment_confidence == DictGet(sentiment_data, "confidence", 30)
             read == [symbol |-> symbol, sentiment_result |-> sentiment_result,
                      sentiment_polarity |-> sentiment_polarity,
                      sentiment_confidence |-> sentiment_confidence,
                      price_data |-> price_data]
         IN  IF price_data = None
             THEN [outcome |-> "no_price"] @@ read
             ELSE LET opportunity == calculate_divergence_score(symbol,
                                        sentiment_polarity, sentiment_confidence,
                                        price_data, 2000)
                  IN  IF IsRaised(opportunity)
                      THEN [outcome |-> "raised", exception |-> opportunity] @@ read
                      ELSE IF opportunity # None
                              /\ opportunity.conviction_score >= min_conv
                      THEN [outcome |-> "appended", opportunity |-> opportunity] @@ read
                      ELSE [outcome |-> "rejected"] @@ read

\* list.sort(key=lambda x: x.conviction_score, reverse=True): descending and stable
InsertByConviction(l, x) ==
    LET k == Cardinality({i \in DOMAIN l : l[i].conviction_score >= x.conviction_score})
    IN  SubSeq(l, 1, k) \o <<x>> \o SubSeq(l, k + 1, Len(l))

RECURSIVE SortByConviction(_)
SortByConviction(l) ==
    IF l = <<>> THEN <<>>
    ELSE InsertByConviction(SortByConviction(SubSeq(l, 1, Len(l) - 1)), l[Len(l)])

\* l[:n]
SliceTo(l, n) ==
    IF n >= 0 THEN SubSeq(l, 1, Min(n, Len(l)))
    ELSE SubSeq(l, 1, IF Len(l) + n > 0 THEN Len(l) + n ELSE 0)

ScanSymbolLists == UNION {[1..n -> {SymAAPL, SymTSLA}] : n \in 0..MaxScanSymbols}
ScanMinConvictions == {500, 700}
ScanMaxResults == {1, 20}

ScanCall(symbols, min_conv, max_res) ==
    /\ scanPc = "idle"
    /\ btPc = "idle"
    /\ scanSymbols' = symbols
    /\ min_conviction' = min_conv
    /\ max_results' = max_res
    /\ opportunities' = <<>>
    /\ scanPc' = "loop"
    /\ UNCHANGED <<scanSeen, scanResult, btVars, lateVars, cleanVars, scoreVars, windowVars,
                   storeVars, threadVars, pipeVars>>

ScanStep ==
    /\ scanPc = "loop"
    /\ Len(scanSeen) < Len(scanSymbols)
    /\ LET symbol == scanSymbols[Len(scanSeen) + 1]
       IN  \E sr \in SentimentResults(symbol), pd \in PriceResults(symbol) :
               LET it == ScanIteration(symbol, sr, pd, min_conviction)
               IN  /\ scanSeen' = Append(scanSeen, it)
                   /\ opportunities' = IF it.outcome = "appended"
                                       THEN Append(opportunities, it.opportunity)
                                       ELSE opportunities
    /\ UNCHANGED <<scanPc, scanSymbols, min_conviction, max_results, scanResult, btVars, lateVars,
                   cleanVars, scoreVars, windowVars, storeVars, threadVars, pipeVars>>

\* lines 315-319: sort, then return opportunities[:max_results]
ScanReturn ==
    /\ scanPc = "loop"
    /\ Len(scanSeen) = Len(scanSymbols)
    /\ opportunities' = SortByConviction(opportunities)
    /\ scanResult' = [kind |-> "list",
                      items |-> SliceTo(SortByConviction(opportunities), max_results)]
    /\ scanPc' = "returned"
    /\ UNCHANGED <<scanSymbols, min_conviction, max_results, scanSeen, btVars, lateVars,
                   cleanVars, scoreVars, windowVars, storeVars, threadVars, pipeVars>>

NextScan ==
    \/ \E symbols \in ScanSymbolLists, min_conv \in ScanMinConvictions,
          max_res \in ScanMaxResults : ScanCall(symbols, min_conv, max_res)
    \/ ScanStep
    \/ ScanReturn

InitTrade ==
    /\ window = <<>>
    /\ pwResult = NoValue
    /\ StoreInit /\ ThreadInit /\ PipeInit /\ UnitInit

SpecScan == InitTrade /\ [][NextScan]_vars

(***************************************************************************)
(* backtest_strategy (backtest.py 118-345) with its default parameters:     *)
(* entry_price None, stop 10%, targets 20% / 50% / 100%, 100 shares.        *)
(* yfinance and should_enter_trade are the environment.  A price is a       *)
(* positive whole number of dollars, or NaN; a date is the position of the  *)
(* bar in the price history.  Every price of the model is a multiple of 10, *)
(* so the thresholds are whole numbers and the float arithmetic of the code *)
(* is exact on them.                                                        *)
(***************************************************************************)
MaxBars == 3           \* longest price history yfinance hands back

\* float('nan'): every comparison with it is false, arithmetic on it yields it
NaN == 0 - 1
IsNaN(x) == x = NaN
FloatLe(a, b) == ~IsNaN(a) /\ ~IsNaN(b) /\ a <= b
FloatGe(a, b) == ~IsNaN(a) /\ ~IsNaN(b) /\ a >= b
\* x * (pct / 100)
FloatScale(x, pct) == IF IsNaN(x) THEN NaN ELSE (x * pct) \div 100

Bar(high, low, close) == [high |-> high, low |-> low, close |-> close]
QuietBar == Bar(115, 100, 110)
StopBar == Bar(110, 90, 100)
Target1Bar == Bar(132, 100, 100)
Target2Bar == Bar(165, 100, 100)
Target3Bar == Bar(220, 100, 100)
StopAndTargetBar == Bar(220, 90, 100)
NaNBar == Bar(NaN, NaN, NaN)
BarKinds == {QuietBar, StopBar, Target1Bar, Target2Bar, Target3Bar, StopAndTargetBar,
             NaNBar}

\* what ticker.history(...) hands back for a symbol (line 166): it raises, or a frame
\* of bars in date order
Histories(symbol) ==
    IF symbol = SymAAPL
    THEN UNION {[1..n -> BarKinds] : n \in 0..MaxBars}
    ELSE {<<>>, <<QuietBar>>, <<QuietBar, Target1Bar, QuietBar>>}

Exit(price, date, reason) == [price |-> price, date |-> date, reason |-> reason]

\* lines 206-228: the checks made on one bar, in the order of the code; None when
\* no check matches
ExitCheckTargetsFirst(bar, date, entry) ==
    IF FloatGe(bar.high, FloatScale(entry, 200))
    THEN Exit(FloatScale(entry, 200), date, "target_3")
    ELSE IF FloatGe(bar.high, FloatScale(entry, 150))
    THEN Exit(FloatScale(entry, 150), date, "target_2")
    ELSE IF FloatGe(bar.high, FloatScale(entry, 120))
    THEN Exit(FloatScale(entry, 120), date, "target_1")
    ELSE IF FloatLe(bar.low, FloatScale(entry, 90))
    THEN Exit(FloatScale(entry, 90), date, "stop_loss")
    ELSE None

ExitCheck(bar, date, entry) ==
    LET stop_loss == FloatScale(entry, 90)
        target_1 == FloatScale(entry, 120)
        target_2 == FloatScale(entry, 150)
        target_3 == FloatScale(entry, 200)
    IN  IF FloatLe(bar.low, stop_loss) THEN Exit(stop_loss, date, "stop_loss")
        ELSE IF FloatGe(bar.high, target_3) THEN Exit(target_3, date, "target_3")
        ELSE IF FloatGe(bar.high, target_2) THEN Exit(target_2, date, "target_2")
        ELSE IF FloatGe(bar.high, target_1) THEN Exit(target_1, date, "target_1")
        ELSE None

\* lines 197-234: `for j in range(1, hold_days + 1)` from step j on, exit being the
\* values of exit_price, exit_date and exit_reason so far; p is the position of the
\* entry bar (i + 1)
RECURSIVE WalkBars(_, _, _, _, _, _)
WalkBars(hist, p, entry, hold, j, exit) ==
    IF j > hold \/ p + j > Len(hist) THEN exit
    ELSE LET hit == ExitCheck(hist[p + j], p + j, entry)
         IN  IF hit # None THEN hit
             ELSE WalkBars(hist, p, entry, hold, j + 1,
                           IF j = hold - 1
                           THEN Exit(hist[p + j].close, p + j, "timeout")
                           ELSE exit)

\* lines 183-251: the trade entered on the bar at position p, or the ValueError of
\* int() on a NaN profit (line 238)
Trade(symbol, hist, p, hold) ==
    LET entry == hist[p].close
        exit == WalkBars(hist, p, entry, hold, 1, Exit(entry, p, "timeout"))
        profit == (exit.price - entry) * 100
    IN  IF IsNaN(entry) \/ IsNaN(exit.price)
        THEN Raised("ValueError", "cannot convert float NaN to integer")
        ELSE [symbol |-> symbol, entry_date |-> p, entry_price |-> entry,
              exit_date |-> exit.date, exit_price |-> exit.price,
              exit_reason |-> exit.reason, gain_pct |-> Frac(exit.price - entry, entry),
              profit_dollars |-> profit, is_win |-> profit > 0]

\* the entry loop if an exception discarded the trades of the symbol
SimulateEntriesDiscarding(symbol, hist, enters, hold, p, trades) ==
    IF \E q \in p..Len(hist) :
           (q - 1) + hold < Len(hist) /\ enters[q] /\ IsRaised(Trade(symbol, hist, q, hold))
    THEN [trades |-> <<>>, exception |-> Raised("ValueError", "discarded")]
    ELSE [trades |-> [n \in 1..Cardinality({q \in p..Len(hist) :
                                               (q - 1) + hold < Len(hist) /\ enters[q]}) |->
                         Trade(symbol, hist,
                               CHOOSE q \in p..Len(hist) :
                                   /\ (q - 1) + hold < Len(hist) /\ enters[q]
                                   /\ Cardinality({r \in p..q :
                                          (r - 1) + hold < Len(hist) /\ enters[r]}) = n,
                               hold)],
          exception |-> None]

\* lines 173-253: the entry loop from position p on; enters[p] is what
\* should_enter_trade answers for the bar at p.  The result is the trades appended
\* and the exception that ended the loop, None when it ran to its end.
RECURSIVE SimulateEntries(_, _, _, _, _, _)
SimulateEntries(symbol, hist, enters, hold, p, trades) ==
    IF p > Len(hist) \/ (p - 1) + hold >= Len(hist)
    THEN [trades |-> trades, exception |-> None]
    ELSE IF ~enters[p]
    THEN SimulateEntries(symbol, hist, enters, hold, p + 1, trades)
    ELSE LET trade == Trade(symbol, hist, p, hold)
         IN  IF IsRaised(trade)
             THEN [trades |-> trades, exception |-> trade]
             ELSE SimulateEntries(symbol, hist, enters, hold, p + 1,
                                  Append(trades, trade))

\* the positions at which the entry loop asks should_enter_trade
EntryPositions(hist, hold) == {p \in DOMAIN hist : (p - 1) + hold < Len(hist)}

BtSymbolLists == {<<>>, <<SymAAPL>>, <<SymTSLA>>, <<SymAAPL, SymTSLA>>,
                  <<SymTSLA, SymAAPL>>}
HoldDays == {1, 2}

BacktestCall(symbols, hold) ==
    /\ btPc = "idle"
    /\ scanPc = "idle"
    /\ btSymbols' = symbols
    /\ hold_days' = hold
    /\ all_trades' = <<>>
    /\ btPc' = "loop"
    /\ UNCHANGED <<btSeen, btResult, scanVars, lateVars, cleanVars, scoreVars, windowVars,
                   storeVars, threadVars, pipeVars>>

\* one iteration of `for symbol in symbols` (lines 162-257)
BacktestStep ==
    /\ btPc = "loop"
    /\ Len(btSeen) < Len(btSymbols)
    /\ LET symbol == btSymbols[Len(btSeen) + 1]
       IN  \/ /\ btSeen' = Append(btSeen, [symbol |-> symbol, outcome |-> "raised",
                                           exception |-> Raised("Exception", "history"),
                                           trades |-> <<>>])
              /\ UNCHANGED all_trades
           \/ \E hist \in Histories(symbol) :
                  IF hist = <<>> \/ Len(hist) < hold_days
                  THEN /\ btSeen' = Append(btSeen, [symbol |-> symbol,
                                                    outcome |-> "insufficient",
                                                    hist |-> hist, trades |-> <<>>])
                       /\ UNCHANGED all_trades
                  ELSE \E enters \in [EntryPositions(hist, hold_days) -> BOOLEAN] :
                           LET run == SimulateEntries(symbol, hist, enters, hold_days,
                                                      1, <<>>)
                           IN  /\ all_trades' = all_trades \o run.trades
                               /\ btSeen' = Append(btSeen,
                                      [symbol |-> symbol,
                                       outcome |-> IF run.exception = None
                                                   THEN "processed" ELSE "raised",
                                       exception |-> run.exception,
                                       hist |-> hist, enters |-> enters,
                                       trades |-> run.trades])
    /\ UNCHANGED <<btPc, btSymbols, hold_days, btResult, scanVars, lateVars, cleanVars, scoreVars,
                   windowVars, storeVars, threadVars, pipeVars>>

\* sum(t.profit_dollars for t in trades)
RECURSIVE SumProfit(_)
SumProfit(trades) ==
    IF trades = <<>> THEN 0
    ELSE trades[1].profit_dollars + SumProfit(Tail(trades))

\* numpy float results as fractions <<n, d>>: d = 0 stands for nan (0/0), -inf (-1/0)
\* and inf (1/0), which a division by zero yields with a warning and no exception
FloatNaN == <<0, 0>>
FloatDiv(n, d) ==
    IF d # 0 THEN Frac(n, d)
    ELSE IF n = 0 THEN FloatNaN ELSE IF n < 0 THEN <<0 - 1, 0>> ELSE <<1, 0>>
FloatTimesInt(x, k) == IF x[2] = 0 THEN x ELSE FracTimesInt(x, k)
FloatLeq(a, b) == a # FloatNaN /\ b # FloatNaN /\ a[1] * b[2] <= b[1] * a[2]
\* np.min: nan when an element is nan, else the least element
FloatMin(s) ==
    IF \E k \in DOMAIN s : s[k] = FloatNaN THEN FloatNaN
    ELSE CHOOSE x \in Range(s) : \A y \in Range(s) : FloatLeq(x, y)

\* np.cumsum and np.maximum.accumulate at position k
CumulativePnl(trades, k) == SumProfit(SubSeq(trades, 1, k))
RunningMax(trades, k) ==
    CHOOSE m \in {CumulativePnl(trades, i) : i \in 1..k} :
        \A i \in 1..k : CumulativePnl(trades, i) <= m

\* lines 293-296
MaxDrawdown(trades) ==
    LET drawdown == [k \in DOMAIN trades |->
                        FloatDiv(CumulativePnl(trades, k) - RunningMax(trades, k),
                                 Abs(RunningMax(trades, k)))]
    IN  IF Len(drawdown) > 0 THEN FloatMin(drawdown) ELSE FracZero

\* the report if the statistics were computed whatever the list of trades
BacktestReportStatistics(symbols, trades) ==
    [total_trades |-> Len(trades),
     winning_trades |-> Cardinality({k \in DOMAIN trades : trades[k].is_win}),
     losing_trades |-> Cardinality({k \in DOMAIN trades : ~trades[k].is_win}),
     trades |-> SliceTo(trades, 50)]

\* lines 259-345: the report, here its counts, its total and its list of trades
BacktestReport(symbols, trades) ==
    IF trades = <<>>
    THEN [error |-> "No trades generated with current parameters",
          symbol_count |-> Len(symbols), total_trades |-> 0]
    ELSE [total_trades |-> Len(trades),
          winning_trades |-> Cardinality({k \in DOMAIN trades : trades[k].is_win}),
          losing_trades |-> Cardinality({k \in DOMAIN trades : ~trades[k].is_win}),
          total_profit |-> SumProfit(trades),
          max_drawdown_pct |-> FloatTimesInt(MaxDrawdown(trades), 100),
          trades |-> SliceTo(trades, 50)]

BacktestReturn ==
    /\ btPc = "loop"
    /\ Len(btSeen) = Len(btSymbols)
    /\ btResult' = BacktestReport(btSymbols, all_trades)
    /\ btPc' = "returned"
    /\ UNCHANGED <<btSymbols, hold_days, all_trades, btSeen, scanVars, lateVars, cleanVars,
                   scoreVars, windowVars, storeVars, threadVars, pipeVars>>

NextBacktest ==
    \/ \E symbols \in BtSymbolLists, hold \in HoldDays : BacktestCall(symbols, hold)
    \/ BacktestStep
    \/ BacktestReturn

SpecBacktest == InitTrade /\ [][NextBacktest]_vars

\* one call of either scan_market or backtest_strategy
NextTrade == NextScan \/ NextBacktest

SpecTrade == InitTrade /\ [][NextTrade]_vars

(***************************************************************************)
(* InMemoryStorage.upsert_post, statement by statement under self._lock.    *)
(***************************************************************************)
\* variant: no mutual exclusion
AcquireUnlocked == TRUE

\* `with self._lock:` lets a caller in only while no other caller holds the lock
CanAcquire == lock = NoThread

MemUpsertPostEnter(t, p) ==
    /\ tpc[t] = "idle"
    /\ CanAcquire
    /\ lock' = t
    /\ tpc' = [tpc EXCEPT ![t] = "lookup"]
    /\ targ' = [targ EXCEPT ![t] = p]
    /\ aggResult' = NoValue
    /\ UNCHANGED <<posts, post_index, post_counter, sentiment, embeddings, now,
                   tloc, firstUpsert, lastUpsert, returned, windowVars, pipeVars>>
    /\ UNCHANGED unitVars

\* if key in self._post_index: pk = self._post_index[key]
MemUpsertPostLookup(t) ==
    /\ tpc[t] = "lookup"
    /\ IF Key(targ[t]) \in DOMAIN post_index
       THEN /\ tloc' = [tloc EXCEPT ![t] = post_index[Key(targ[t])]]
            /\ tpc' = [tpc EXCEPT ![t] = "update"]
       ELSE /\ tloc' = tloc
            /\ tpc' = [tpc EXCEPT ![t] = "create"]
    /\ UNCHANGED <<storeVars, targ, aggResult, firstUpsert, lastUpsert, returned, windowVars, pipeVars>>
    /\ UNCHANGED unitVars

\* leaving the with block and returning pk
MemReturnPk(t, pk) ==
    /\ lock' = NoThread
    /\ tpc' = [tpc EXCEPT ![t] = "idle"]
    /\ targ' = [targ EXCEPT ![t] = NoValue]
    /\ tloc' = [tloc EXCEPT ![t] = 0]
    /\ returned' = returned \cup {[key |-> Key(targ[t]), pk |-> pk]}
    /\ firstUpsert' = IF Key(targ[t]) \in DOMAIN firstUpsert THEN firstUpsert
                      ELSE Put(firstUpsert, Key(targ[t]), targ[t])
    /\ lastUpsert' = Put(lastUpsert, Key(targ[t]), targ[t])

\* variant: a duplicate also replaces the stored text and symbols
MemUpsertPostOverwrite(t) ==
    /\ tpc[t] = "update"
    /\ posts' = [posts EXCEPT ![tloc[t]].ingested_at = now,
                              ![tloc[t]].text = targ[t].text,
                              ![tloc[t]].symbols = targ[t].symbols]
    /\ MemReturnPk(t, tloc[t])
    /\ UNCHANGED <<post_index, post_counter, sentiment, embeddings, now, aggResult,
                   windowVars, pipeVars>>
    /\ UNCHANGED unitVars

\* self._posts[pk]['ingested_at'] = datetime.now(); return pk
MemUpsertPostUpdate(t) ==
    /\ tpc[t] = "update"
    /\ posts' = [posts EXCEPT ![tloc[t]].ingested_at = now]
    /\ MemReturnPk(t, tloc[t])
    /\ UNCHANGED <<post_index, post_counter, sentiment, embeddings, now, aggResult,
                   windowVars, pipeVars>>
    /\ UNCHANGED unitVars

\* pk = self._post_counter ... self._post_index[key] = pk; return pk
MemUpsertPostCreate(t) ==
    /\ tpc[t] = "create"
    /\ post_counter' = post_counter + 1
    /\ posts' = Put(posts, post_counter, NewRow(post_counter, targ[t], now))
    /\ post_index' = Put(post_index, Key(targ[t]), post_counter)
    /\ MemReturnPk(t, post_counter)
    /\ UNCHANGED <<sentiment, embeddings, now, aggResult, windowVars, pipeVars>>
    /\ UNCHANGED unitVars

\* time passes between two readings of datetime.now()
Tick ==
    /\ now < MaxNow
    /\ now' = now + 1
    /\ UNCHANGED <<posts, post_index, post_counter, sentiment, embeddings, lock,
                   threadVars, windowVars, pipeVars>>
    /\ UNCHANGED unitVars

\* the posts concurrent callers hand to upsert_post: three keys, two contents
StoreKeys == {<<"x", "1">>, <<"x", "2">>, <<"reddit", "1">>}
StoreTexts == {normalize_post(TextGood), normalize_post(TextOther)}
StorePosts ==
    {[source |-> k[1], platform_id |-> k[2], created_at |-> 0 - 1, text |-> tx,
      symbols |-> Cashtags(tx)] : k \in StoreKeys, tx \in StoreTexts}

InitStore ==
    /\ window = <<>>
    /\ pwResult = NoValue
    /\ StoreInit /\ ThreadInit /\ PipeInit /\ UnitInit

NextStore ==
    \/ \E t \in Threads, p \in StorePosts : MemUpsertPostEnter(t, p)
    \/ \E t \in Threads : MemUpsertPostLookup(t)
    \/ \E t \in Threads : MemUpsertPostUpdate(t)
    \/ \E t \in Threads : MemUpsertPostCreate(t)
    \/ Tick

SpecStore == InitStore /\ [][NextStore]_vars

(***************************************************************************)
(* InMemoryStorage, one method call at a time: every method runs under      *)
(* `with self._lock`, so a call is one step.                                *)
(***************************************************************************)
MemKeys == {<<"x", "1">>, <<"reddit", "1">>}
MemPosts == {p \in StorePosts : Key(p) \in MemKeys}
\* the ids callers pass: every id the store can hand out and one it never does
MemPks == 1..(Cardinality(MemKeys) + 1)
MemEmbeddings == {"emb"}
MemPolarities == {0 - 1, 1}

MemRest ==
    UNCHANGED <<lock, now, threadVars, windowVars, pipeVars, cleanVars, scoreVars,
                tradeVars, cacheBackend, resLast, cacheWrites, fetchVars>>

MemCalled(op, pk) ==
    memLast' = [op |-> op, pk |-> pk, known |-> pk \in DOMAIN posts,
                changed |-> <<posts', post_index', post_counter', sentiment', embeddings'>>
                            # <<posts, post_index, post_counter, sentiment, embeddings>>]

\* upsert_post
MemUpsertPost(p) ==
    /\ lock = NoThread
    /\ IF Key(p) \in DOMAIN post_index
       THEN /\ posts' = [posts EXCEPT ![post_index[Key(p)]].ingested_at = now]
            /\ UNCHANGED <<post_index, post_counter>>
       ELSE /\ posts' = Put(posts, post_counter, NewRow(post_counter, p, now))
            /\ post_index' = Put(post_index, Key(p), post_counter)
            /\ post_counter' = post_counter + 1
    /\ UNCHANGED <<sentiment, embeddings, resolver_cache, lastScore>>
    /\ MemCalled("upsert_post", IF Key(p) \in DOMAIN post_index THEN post_index[Key(p)]
                                ELSE post_counter)
    /\ MemRest

\* variant: the score is written whether or not the post exists
SentimentAfterUnchecked(pk, s) == Put(sentiment, pk, SentimentRow(pk, s))

\* if pk not in self._posts: return;  self._sentiment[pk] = {...}
SentimentAfter(pk, s) ==
    IF pk \notin DOMAIN posts THEN sentiment ELSE Put(sentiment, pk, SentimentRow(pk, s))

\* upsert_sentiment
MemUpsertSentiment(pk, s) ==
    /\ lock = NoThread
    /\ sentiment' = SentimentAfter(pk, s)
    /\ lastScore' = Put(lastScore, pk, s)
    /\ UNCHANGED <<posts, post_index, post_counter, embeddings, resolver_cache>>
    /\ MemCalled("upsert_sentiment", pk)
    /\ MemRest

\* upsert_embedding
MemUpsertEmbedding(pk, emb) ==
    /\ lock = NoThread
    /\ embeddings' = IF pk \notin DOMAIN posts THEN embeddings ELSE Put(embeddings, pk, emb)
    /\ UNCHANGED <<posts, post_index, post_counter, sentiment, resolver_cache, lastScore>>
    /\ MemCalled("upsert_embedding", pk)
    /\ MemRest

\* clear
MemClear ==
    /\ lock = NoThread
    /\ posts' = EmptyMap
    /\ embeddings' = EmptyMap
    /\ sentiment' = EmptyMap
    /\ resolver_cache' = EmptyMap
    /\ post_index' = EmptyMap
    /\ post_counter' = 1
    /\ lastScore' = EmptyMap
    /\ MemCalled("clear", 0)
    /\ MemRest

NextMem ==
    \/ \E p \in MemPosts : MemUpsertPost(p)
    \/ \E pk \in MemPks, pol \in MemPolarities : MemUpsertSentiment(pk, [polarity |-> pol])
    \/ \E pk \in MemPks, emb \in MemEmbeddings : MemUpsertEmbedding(pk, emb)
    \/ MemClear

SpecMem == InitStore /\ [][NextMem]_vars

(***************************************************************************)
(* DB: each method is one SQL statement, atomic in the database.            *)
(***************************************************************************)
\* the row the UNIQUE (source, platform_id) constraint finds in conflict
ConflictingPks(p) == {pk \in DOMAIN posts : Key(posts[pk]) = Key(p)}

\* RETURNING id of INSERT ... ON CONFLICT (source, platform_id) DO UPDATE
DBUpsertPostId(p) ==
    IF ConflictingPks(p) # {} THEN CHOOSE pk \in ConflictingPks(p) : TRUE
    ELSE post_counter

DBUpsertPost(p) ==
    IF ConflictingPks(p) # {}
    THEN /\ posts' = [posts EXCEPT ![DBUpsertPostId(p)].ingested_at = now]
         /\ post_counter' = post_counter
    ELSE /\ posts' = Put(posts, post_counter, NewRow(post_counter, p, now))
         /\ post_counter' = post_counter + 1

\* INSERT INTO sentiment ... ON CONFLICT (post_pk) DO UPDATE SET polarity = EXCLUDED.polarity ...
DBUpsertSentiment(pk, s) == sentiment' = Put(sentiment, pk, SentimentRow(pk, s))

\* INSERT INTO post_embeddings ... ON CONFLICT (post_pk) DO UPDATE SET emb = EXCLUDED.emb
DBUpsertEmbedding(pk, emb) == embeddings' = Put(embeddings, pk, emb)

(***************************************************************************)
(* Aggregation over a populated store: posts and scores are written, and    *)
(* both backends' aggregate is evaluated on the rows.                       *)
(***************************************************************************)
AggSources == {"x", "reddit"}
AggSinces == {0 - 24}
AggSymbols == {SymAAPL}
AggPolarities == {0 - 1, 1}
\* a post in the window on the instrument, one on another instrument, one too old
AggKinds ==
    {[symbols |-> {SymAAPL}, created_at |-> 0 - 24, text |-> normalize_post(TextGood)],
     [symbols |-> {SymTSLA}, created_at |-> 0 - 24, text |-> normalize_post(TextOther)],
     [symbols |-> {SymAAPL}, created_at |-> 0 - 25, text |-> normalize_post(TextCrash)]}

RowsOf(src) == {pk \in DOMAIN posts : posts[pk].source = src}

\* platform ids are numbered per source in the order the posts first arrive
AggPosts ==
    {[source |-> src, platform_id |-> n, created_at |-> k.created_at, text |-> k.text,
      symbols |-> k.symbols] :
        src \in AggSources, n \in 1..MaxStorePosts, k \in AggKinds}

StoreUpsertPost(p) ==
    /\ pc = "idle"
    /\ DBUpsertPost(p)
    /\ aggResult' = NoValue
    /\ UNCHANGED <<post_index, sentiment, embeddings, lock, now, tpc, targ, tloc,
                   firstUpsert, lastUpsert, returned, windowVars, pipeVars>>
    /\ UNCHANGED unitVars

\* upsert_sentiment for a pk without a post: a foreign-key error in DB, a logged
\* no-op in InMemoryStorage; neither writes
StoreUpsertSentiment(pk, s) ==
    /\ pc = "idle"
    /\ IF pk \in DOMAIN posts THEN DBUpsertSentiment(pk, s) ELSE sentiment' = sentiment
    /\ aggResult' = NoValue
    /\ UNCHANGED <<posts, post_index, post_counter, embeddings, lock, now, tpc, targ,
                   tloc, firstUpsert, lastUpsert, returned, windowVars, pipeVars>>
    /\ UNCHANGED unitVars

\* InMemoryStorage.aggregate and DB.aggregate asked the same question of the same rows
AggregateCall(symbol, sinceArg) ==
    /\ pc = "idle"
    /\ CanAcquire
    /\ aggResult' = [symbol |-> symbol, since |-> sinceArg,
                     memory |-> MemAggregate(symbol, sinceArg),
                     db |-> DBAggregate(symbol, sinceArg)]
    /\ UNCHANGED <<storeVars, tpc, targ, tloc, firstUpsert, lastUpsert, returned, windowVars, pipeVars>>
    /\ UNCHANGED unitVars

InitAgg ==
    /\ window = <<>>
    /\ pwResult = NoValue
    /\ StoreInit /\ ThreadInit /\ PipeInit /\ UnitInit

NextAgg ==
    \/ \E p \in AggPosts :
           /\ p.platform_id = Cardinality(RowsOf(p.source)) + 1
           /\ Cardinality(DOMAIN posts) < MaxStorePosts
           /\ StoreUpsertPost(p)
    \/ \E pk \in 1..(MaxStorePosts + 1), pol \in AggPolarities :
           StoreUpsertSentiment(pk, [polarity |-> pol])
    \/ \E sym \in AggSymbols, sn \in AggSinces : AggregateCall(sym, sn)

SpecAgg == InitAgg /\ [][NextAgg]_vars

(***************************************************************************)
(* The persist loop of aggregate_social over several calls: one iteration   *)
(* of `for p in clean_posts:` in which no statement raises.                 *)
(***************************************************************************)
PersistTexts == {normalize_post(TextGood), normalize_post(TextCrash)}
\* cleaned posts that passed both filters; the same key may come with either text
PersistPosts ==
    {[source |-> k[1], platform_id |-> k[2], created_at |-> 0 - 1, text |-> tx,
      symbols |-> Cashtags(tx)] : k \in StoreKeys, tx \in PersistTexts}

\* pk = db.upsert_post(p); db.upsert_sentiment(pk, score_text(p.text));
\* db.upsert_embedding(pk, compute_embedding(p.text))
PersistIteration(p) ==
    /\ pc = "idle"
    /\ DBUpsertPost(p)
    /\ DBUpsertSentiment(DBUpsertPostId(p), score_text(p.text))
    /\ DBUpsertEmbedding(DBUpsertPostId(p), compute_embedding(p.text))
    /\ UNCHANGED <<post_index, lock, now, threadVars, windowVars, pipeVars>>
    /\ UNCHANGED unitVars

NextPersist == \E p \in PersistPosts : PersistIteration(p)

SpecPersist == InitAgg /\ [][NextPersist]_vars

(***************************************************************************)
(* The source collectors' request loops (app/services/x_client.py,          *)
(* stocktwits_client.py, discord_client.py).  The API's reply to a request  *)
(* is one of Answers; a reply with items carries a number of items that     *)
(* parse into posts.                                                        *)
(***************************************************************************)
MaxRequests == 6       \* requests one collector call is followed for
max_pages == 3
DiscordBatches == 2

FetchSources == {"x", "stocktwits", "discord"}
\* 429; another HTTP error or a network exception; no items; items and a further
\* next_token / cursor; items and none
Answers == {"rate_limited", "error", "empty", "more", "last"}
PageSizes == {0, 1, 2}
ChannelCounts == {0, 1, 2}

FetchRest ==
    UNCHANGED <<storeVars, threadVars, windowVars, pipeVars, cleanVars, scoreVars,
                tradeVars, resolveVars, memVars>>

FetchReturn(n) ==
    /\ fetchPc' = "returned"
    /\ fetchResult' = [posts |-> n]

\* the collector is called; without its token, guild ids or a symbol it returns []
FetchCall(src, configured) ==
    /\ fetchPc = "idle"
    /\ pc = "idle"
    /\ fetchSource' = src
    /\ IF configured
       THEN /\ fetchPc' = IF src = "discord" THEN "channels" ELSE "request"
            /\ fetchResult' = fetchResult
       ELSE FetchReturn(0)
    /\ UNCHANGED <<fetchRequests, fetchPosts, current_page, fetchChannels>>
    /\ FetchRest

\* search_x_bundle: one iteration of `while True:`
XRequest(answer, n) ==
    /\ fetchSource = "x"
    /\ fetchPc = "request"
    /\ fetchRequests < MaxRequests
    /\ fetchRequests' = fetchRequests + 1
    /\ IF answer \in {"rate_limited", "error", "empty"}
       THEN fetchPosts' = fetchPosts /\ FetchReturn(fetchPosts)
       ELSE /\ fetchPosts' = fetchPosts + n
            /\ IF answer = "more"
               THEN UNCHANGED <<fetchPc, fetchResult>>
               ELSE FetchReturn(fetchPosts + n)
    /\ UNCHANGED <<fetchSource, current_page, fetchChannels>>
    /\ FetchRest

\* collect_stocktwits: one iteration of `while current_page < max_pages:`
StocktwitsRequest(answer, n) ==
    /\ fetchSource = "stocktwits"
    /\ fetchPc = "request"
    /\ current_page < max_pages
    /\ fetchRequests < MaxRequests
    /\ fetchRequests' = fetchRequests + 1
    /\ IF answer \in {"rate_limited", "error", "empty"}
       THEN /\ fetchPosts' = fetchPosts
            /\ current_page' = current_page
            /\ FetchReturn(fetchPosts)
       ELSE /\ fetchPosts' = fetchPosts + n
            /\ IF answer = "more"
               THEN /\ current_page' = current_page + 1
                    /\ IF current_page + 1 < max_pages
                       THEN UNCHANGED <<fetchPc, fetchResult>>
                       ELSE FetchReturn(fetchPosts + n)
               ELSE /\ current_page' = current_page
                    /\ FetchReturn(fetchPosts + n)
    /\ UNCHANGED <<fetchSource, fetchChannels>>
    /\ FetchRest

\* collect_discord: the request for the channels of the guild; k text channels of the
\* allowlist come back
DiscordChannels(answer, k) ==
    /\ fetchSource = "discord"
    /\ fetchPc = "channels"
    /\ fetchRequests < MaxRequests
    /\ fetchRequests' = fetchRequests + 1
    /\ IF answer \in {"rate_limited", "error"} \/ k = 0
       THEN fetchChannels' = fetchChannels /\ FetchReturn(fetchPosts)
       ELSE /\ fetchChannels' = k
            /\ fetchPc' = "request"
            /\ fetchResult' = fetchResult
    /\ UNCHANGED <<fetchSource, fetchPosts, current_page>>
    /\ FetchRest

\* collect_discord: one iteration of `for _ in range(2):` for the current channel
DiscordRequest(answer, n) ==
    /\ fetchSource = "discord"
    /\ fetchPc = "request"
    /\ fetchRequests < MaxRequests
    /\ fetchRequests' = fetchRequests + 1
    /\ LET got == IF answer \in {"more", "last"} THEN n ELSE 0
           channelDone == answer \notin {"more", "last"} \/ current_page + 1 = DiscordBatches
       IN  /\ fetchPosts' = fetchPosts + got
           /\ IF channelDone
              THEN /\ current_page' = 0
                   /\ fetchChannels' = fetchChannels - 1
                   /\ IF fetchChannels = 1
                      THEN FetchReturn(fetchPosts + got)
                      ELSE UNCHANGED <<fetchPc, fetchResult>>
              ELSE /\ current_page' = current_page + 1
                   /\ UNCHANGED <<fetchChannels, fetchPc, fetchResult>>
    /\ UNCHANGED fetchSource
    /\ FetchRest

NextFetch ==
    \/ \E src \in FetchSources, configured \in BOOLEAN : FetchCall(src, configured)
    \/ \E answer \in Answers, n \in PageSizes : XRequest(answer, n)
    \/ \E answer \in Answers, n \in PageSizes : StocktwitsRequest(answer, n)
    \/ \E answer \in Answers \ {"empty"}, k \in ChannelCounts : DiscordChannels(answer, k)
    \/ \E answer \in Answers, n \in PageSizes : DiscordRequest(answer, n)

SpecFetch == InitAgg /\ [][NextFetch]_vars

(***************************************************************************)
(* resolve (app/services/resolver.py), the part that computes a fresh       *)
(* instrument from the query.                                               *)
(***************************************************************************)
SYMBOL_MAP ==
    <<<<<<"A", "P", "P", "L", "E">>, <<"A", "A", "P", "L">>>>,
      <<<<"T", "E", "S", "L", "A">>, <<"T", "S", "L", "A">>>>,
      <<<<"M", "I", "C", "R", "O", "S", "O", "F", "T">>, <<"M", "S", "F", "T">>>>,
      <<<<"A", "M", "A", "Z", "O", "N">>, <<"A", "M", "Z", "N">>>>,
      <<<<"G", "O", "O", "G", "L", "E">>, <<"G", "O", "O", "G", "L">>>>,
      <<<<"M", "E", "T", "A">>, <<"M", "E", "T", "A">>>>,
      <<<<"N", "V", "I", "D", "I", "A">>, <<"N", "V", "D", "A">>>>>>

\* s.strip('$')
RECURSIVE StripDollarRight(_)
StripDollarRight(s) ==
    IF Len(s) > 0 /\ LastChar(s) = "$" THEN StripDollarRight(ButLast(s)) ELSE s

RECURSIVE StripDollarLeft(_)
StripDollarLeft(s) ==
    IF Len(s) > 0 /\ s[1] = "$" THEN StripDollarLeft(Tail(s)) ELSE s

StripDollar(s) == StripDollarRight(StripDollarLeft(s))

\* s.isalpha()
IsAlpha(s) == Len(s) > 0 /\ \A i \in DOMAIN s : IsUpper(s[i]) \/ IsLower(s[i])

Instrument(sym, name) == [symbol |-> sym, company_name |-> name]

ResolveFresh(q) ==
    LET query_upper == StripDollar(UpperStr(q))
        hits == {i \in DOMAIN SYMBOL_MAP : SYMBOL_MAP[i][1] = query_upper}
    IN  IF Len(query_upper) <= 5 /\ IsAlpha(query_upper)
        THEN Instrument(query_upper, query_upper)
        ELSE IF hits # {} THEN Instrument(SYMBOL_MAP[CHOOSE i \in hits : TRUE][2], q)
        ELSE Instrument(query_upper, q)

(***************************************************************************)
(* resolve with its cache (resolver.py 17-57), on the in-memory store and   *)
(* on the database.  Times are hours; the clock advances a day at a time.   *)
(***************************************************************************)
MaxCacheDays == 8      \* days the clock of the resolver specifications runs

TTLHours == 24 * 7

\* whether get_cached_resolution hands back a row of the given age:
\* memory_storage.py 167 drops it when now - cached_at > 7 days,
\* db.py 118 selects it when cached_at > NOW() - INTERVAL '7 days'
CacheAlwaysValid(backend, age) == TRUE
CacheValid(backend, age) ==
    IF backend = "memory" THEN ~(age > TTLHours) ELSE age < TTLHours

\* get_cached_resolution: the cached instrument, or None
GetCachedResolution(cache, backend, key, t) ==
    IF key \in DOMAIN cache /\ CacheValid(backend, t - cache[key].cached_at)
    THEN cache[key].inst
    ELSE None

\* the cache after get_cached_resolution: the in-memory store deletes an expired row
CacheAfterRead(cache, backend, key, t) ==
    IF backend = "memory" /\ key \in DOMAIN cache
       /\ ~CacheValid(backend, t - cache[key].cached_at)
    THEN [k \in DOMAIN cache \ {key} |-> cache[k]]
    ELSE cache

\* cache_resolution: insert or overwrite, cached_at = now
CacheResolution(cache, key, instrument, t) ==
    Put(cache, key, [inst |-> instrument, cached_at |-> t])

LowerStr(s) == [i \in DOMAIN s |-> LowerChar(s[i])]

CompanyNames ==
    {<<"A", "p", "p", "l", "e">>, <<"T", "e", "s", "l", "a">>,
     <<"M", "i", "c", "r", "o", "s", "o", "f", "t">>, <<"A", "m", "a", "z", "o", "n">>,
     <<"G", "o", "o", "g", "l", "e">>, <<"M", "e", "t", "a">>,
     <<"N", "v", "i", "d", "i", "a">>}
\* the queries of the specification of the cache, and those of a first call
CachedQueries ==
    {<<"A", "m", "a", "z", "o", "n">>, <<"a", "m", "a", "z", "o", "n">>, SymAAPL}
FirstQueries ==
    CompanyNames \cup {UpperStr(n) : n \in CompanyNames}
    \cup {LowerStr(n) : n \in CompanyNames} \cup {SymAAPL, <<"$", "A", "A", "P", "L">>}

\* resolve(q) when the store answers
ResolveCall(q) ==
    LET key == UpperStr(q)
        cached == GetCachedResolution(resolver_cache, cacheBackend, key, now)
        read == CacheAfterRead(resolver_cache, cacheBackend, key, now)
        prior == IF key \in DOMAIN cacheWrites THEN cacheWrites[key] ELSE None
    IN  /\ IF cached # None
           THEN /\ resolver_cache' = read
                /\ cacheWrites' = Put(cacheWrites, key, [prior EXCEPT !.read = TRUE])
                /\ resLast' = [query |-> q, at |-> now, result |-> cached, hit |-> TRUE,
                               prior |-> prior,
                               cache_empty |-> resolver_cache = EmptyMap]
           ELSE LET fresh == ResolveFresh(q)
                IN  /\ resolver_cache' = CacheResolution(read, key, fresh, now)
                    /\ cacheWrites' = Put(cacheWrites, key,
                                          [inst |-> fresh, at |-> now, read |-> FALSE])
                    /\ resLast' = [query |-> q, at |-> now, result |-> fresh,
                                   hit |-> FALSE, prior |-> prior,
                                   cache_empty |-> resolver_cache = EmptyMap]
        /\ UNCHANGED <<cacheBackend, now, posts, post_index, post_counter, sentiment,
                       embeddings, lock, threadVars, windowVars, pipeVars, cleanVars,
                       scoreVars, tradeVars, memVars, fetchVars>>

\* resolve(q) when DB() or a statement of the database raises: nothing is written
ResolveRaises(q) ==
    /\ cacheBackend = "db"
    /\ resLast' = [query |-> q, at |-> now,
                   result |-> Raised("OperationalError", "resolver_cache"),
                   hit |-> FALSE, prior |-> None,
                   cache_empty |-> resolver_cache = EmptyMap]
    /\ UNCHANGED <<resolver_cache, cacheWrites, cacheBackend, now, posts, post_index,
                   post_counter, sentiment, embeddings, lock, threadVars, windowVars,
                   pipeVars, cleanVars, scoreVars, tradeVars, memVars, fetchVars>>

DayPasses ==
    /\ now < 24 * MaxCacheDays
    /\ now' = now + 24
    /\ resLast' = NoValue
    /\ UNCHANGED <<resolver_cache, cacheWrites, cacheBackend, posts, post_index,
                   post_counter, sentiment, embeddings, lock, threadVars, windowVars,
                   pipeVars, cleanVars, scoreVars, tradeVars, memVars, fetchVars>>

InitResolve ==
    /\ cacheBackend \in {"memory", "db"}
    /\ resolver_cache = EmptyMap
    /\ resLast = NoValue
    /\ cacheWrites = EmptyMap
    /\ window = <<>>
    /\ pwResult = NoValue
    /\ StoreInit /\ ThreadInit /\ PipeInit /\ CleanInit /\ ScoreInit /\ TradeInit
    /\ MemInit /\ FetchInit

NextResolve ==
    \/ \E q \in CachedQueries : ResolveCall(q)
    \/ \E q \in CachedQueries : ResolveRaises(q)
    \/ DayPasses

SpecResolve == InitResolve /\ [][NextResolve]_vars

\* the first call of resolve on a store whose cache is empty
FirstResolve(q) == cacheWrites = EmptyMap /\ ResolveCall(q)

NextFirstResolve ==
    \/ \E q \in FirstQueries : FirstResolve(q)
    \/ DayPasses

SpecFirstResolve == InitResolve /\ [][NextFirstResolve]_vars

(***************************************************************************)
(* aggregate_social, one action per stage and per loop iteration.           *)
(***************************************************************************)
Exception(type, at) == [kind |-> "exception", type |-> type, at |-> at]

PipeQueries == {SymAAPL}
PipeWindows == {<<"2", "4", "h">>, <<"x", "y", "z">>}
PipeTexts == {TextGood, TextNoSym, TextShort, TextDollars, TextSpam}

\* the texts one collector may return; the dollar-sign floods come from X only
CollectorTexts(c) ==
    IF c = "x" THEN PipeTexts ELSE PipeTexts \ {TextDollars, TextSpam}

\* what one collector may return: up to MaxCollected posts of its own source
CollectorPosts(c) ==
    {[source |-> c, platform_id |-> "1", created_at |-> 0 - 1, text |-> tx, symbols |-> {}] :
        tx \in CollectorTexts(c)}
Batches(c) == UNION {[1..n -> CollectorPosts(c)] : n \in 0..MaxCollected}

Call(q, w) ==
    /\ pc = "idle"
    /\ pwResult = NoValue
    /\ query' = q
    /\ window' = w
    /\ pc' = "resolve"
    /\ UNCHANGED <<nCacheReads, nCacheWrites, pwResult, storeVars, threadVars, inst, since, collected, sources_status,
                   invoked, failedSrc, delivered, resolveFailed, clean_posts, filter_stats,
                   cur, processed_count, dbOpen, result, raised, cleanFail, persistFail,
                   visited, attempted, nWrites, nAggQueries>>
    /\ UNCHANGED unitVars

\* variant: a failed resolution falls back to the query itself and the call goes on
ResolveFailedFallback ==
    /\ inst' = Instrument(query, query)
    /\ raised' = raised
    /\ pc' = "window"

\* except Exception: raise ValueError(f"Could not resolve symbol: {symbol}")
ResolveFailedRaise ==
    /\ inst' = inst
    /\ raised' = Exception("ValueError", "resolve")
    /\ pc' = "raised"

\* the statements of resolve that touch the database, in order
ResolveSteps == <<"DB()", "get_cached_resolution", "cache_resolution">>
ResolveStepNo(name) == IndexIn(ResolveSteps, name)

\* inst = resolve(symbol): a cache read, on a miss a fresh resolution and a cache write.
\* `failAt` is the statement that raises, Len(ResolveSteps) + 1 when none does; the
\* read or write that raises was issued.  The cache holds no entry for the query.
Resolve ==
    /\ pc = "resolve"
    /\ \E failAt \in 1..(Len(ResolveSteps) + 1) :
           /\ resolveFailed' = (failAt <= Len(ResolveSteps))
           /\ nCacheReads' = nCacheReads + (IF failAt >= ResolveStepNo("get_cached_resolution")
                                            THEN 1 ELSE 0)
           /\ nCacheWrites' = nCacheWrites + (IF failAt >= ResolveStepNo("cache_resolution")
                                              THEN 1 ELSE 0)
           /\ IF failAt > Len(ResolveSteps)
              THEN /\ inst' = ResolveFresh(query)
                   /\ raised' = raised
                   /\ pc' = "window"
              ELSE ResolveFailedRaise
    /\ UNCHANGED <<windowVars, storeVars, threadVars, query, since, collected,
                   sources_status, invoked, failedSrc, delivered, clean_posts, filter_stats,
                   cur, processed_count, dbOpen, result, cleanFail, persistFail,
                   visited, attempted, nWrites, nAggQueries>>
    /\ UNCHANGED unitVars

\* since = utcnow() - _parse_window(window); a failure becomes ValueError
ParseWindow ==
    /\ pc = "window"
    /\ IF parse_window(window).kind = "ValueError"
       THEN /\ raised' = Exception("ValueError", "window")
            /\ pc' = "raised"
            /\ UNCHANGED <<since, cur>>
       ELSE /\ since' = now - parse_window(window).hours
            /\ raised' = raised
            /\ cur' = 1
            /\ pc' = "collect"
    /\ UNCHANGED <<nCacheReads, nCacheWrites, windowVars, storeVars, threadVars, query, inst, collected,
                   sources_status, invoked, failedSrc, delivered, resolveFailed,
                   clean_posts, filter_stats, processed_count, dbOpen, result,
                   cleanFail, persistFail, visited, attempted, nWrites, nAggQueries>>
    /\ UNCHANGED unitVars

\* after collector number i: the next collector, or the check of the collected posts
AfterCollector(i) ==
    IF i < Len(Collectors) THEN cur' = i + 1 /\ pc' = "collect"
                           ELSE cur' = 0 /\ pc' = "check"

\* variant: a collector's exception leaves aggregate_social
CollectorFailedRaise(i) ==
    /\ sources_status' = sources_status
    /\ raised' = Exception("Exception", "collect")
    /\ cur' = cur
    /\ pc' = "raised"

\* except Exception: sources_status[<source>] = 0
CollectorFailed(i) ==
    /\ sources_status' = Put(sources_status, Collectors[i], 0)
    /\ raised' = raised
    /\ AfterCollector(i)

\* try: <source>_posts = collector(inst_dict, since); posts.extend(...); sources_status[...] = len(...)
Collect(i) ==
    /\ pc = "collect"
    /\ cur = i
    /\ invoked' = [invoked EXCEPT ![Collectors[i]] = @ + 1]
    /\ \/ /\ failedSrc' = failedSrc \cup {Collectors[i]}
          /\ CollectorFailed(i)
          /\ UNCHANGED <<collected, delivered>>
       \/ \E batch \in Batches(Collectors[i]) :
              /\ Len(collected) + Len(batch) <= MaxCollected
              /\ collected' = collected \o batch
              /\ delivered' = [delivered EXCEPT ![Collectors[i]] = batch]
              /\ sources_status' = Put(sources_status, Collectors[i], Len(batch))
              /\ AfterCollector(i)
              /\ UNCHANGED <<failedSrc, raised>>
    /\ UNCHANGED <<nCacheReads, nCacheWrites, windowVars, storeVars, threadVars, query, inst, since, resolveFailed,
                   clean_posts, filter_stats, processed_count, dbOpen, result,
                   cleanFail, persistFail, visited, attempted, nWrites, nAggQueries>>
    /\ UNCHANGED unitVars

\* variant: the pipeline goes on with an empty list
NoPostsIgnored == FALSE

\* if not posts:
NoPosts == Len(collected) = 0

EarlyResult(found, marker) ==
    [symbol |-> query, posts_found |-> found, posts_processed |-> 0,
     sources |-> sources_status, resolved_instrument |-> inst, error |-> marker]

CheckPosts ==
    /\ pc = "check"
    /\ IF NoPosts
       THEN /\ result' = EarlyResult(0, "No posts found for this symbol")
            /\ pc' = "returned"
            /\ UNCHANGED <<clean_posts, filter_stats, cur>>
       ELSE /\ clean_posts' = <<>>
            /\ filter_stats' = [total_input |-> Len(collected), no_symbols |-> 0,
                                probable_bots |-> 0, processed |-> 0]
            /\ cur' = 1
            /\ pc' = "clean"
            /\ result' = result
    /\ UNCHANGED <<nCacheReads, nCacheWrites, windowVars, storeVars, threadVars, query, inst, since, collected,
                   sources_status, invoked, failedSrc, delivered, resolveFailed,
                   processed_count, dbOpen, raised, cleanFail, persistFail, visited,
                   attempted, nWrites, nAggQueries>>
    /\ UNCHANGED unitVars

\* one iteration of `for p in posts:`; an exception (normalize_post on a malformed
\* post) is caught and the loop continues
CleanStep ==
    /\ pc = "clean"
    /\ cur <= Len(collected)
    /\ visited' = visited \cup {cur}
    /\ cur' = cur + 1
    /\ \/ /\ cleanFail' = cleanFail \cup {cur}
          /\ UNCHANGED <<collected, clean_posts, filter_stats>>
       \/ LET text == normalize_post(collected[cur].text)
              symbols == extract_symbols(text, inst)
              p == [collected[cur] EXCEPT !.text = text, !.symbols = symbols]
          IN  /\ collected' = [collected EXCEPT ![cur] = p]
              /\ cleanFail' = cleanFail
              /\ IF symbols = {}
                 THEN /\ filter_stats' = [filter_stats EXCEPT !.no_symbols = @ + 1]
                      /\ clean_posts' = clean_posts
                 ELSE IF is_probable_bot(p)
                 THEN /\ filter_stats' = [filter_stats EXCEPT !.probable_bots = @ + 1]
                      /\ clean_posts' = clean_posts
                 ELSE /\ filter_stats' = [filter_stats EXCEPT !.processed = @ + 1]
                      /\ clean_posts' = Append(clean_posts, cur)
    /\ UNCHANGED <<nCacheReads, nCacheWrites, pc, windowVars, storeVars, threadVars, query, inst, since,
                   sources_status, invoked, failedSrc, delivered, resolveFailed,
                   processed_count, dbOpen, result, raised, persistFail, attempted,
                   nWrites, nAggQueries>>
    /\ UNCHANGED unitVars

\* if not clean_posts: return {...}
CleanDone ==
    /\ pc = "clean"
    /\ cur > Len(collected)
    /\ IF Len(clean_posts) = 0
       THEN /\ result' = EarlyResult(Len(collected), "No valid posts after filtering")
            /\ pc' = "returned"
       ELSE /\ result' = result
            /\ pc' = "opendb"
    /\ UNCHANGED <<nCacheReads, nCacheWrites, windowVars, storeVars, threadVars, query, inst, since, collected,
                   sources_status, invoked, failedSrc, delivered, resolveFailed,
                   clean_posts, filter_stats, cur, processed_count, dbOpen, raised,
                   cleanFail, persistFail, visited, attempted, nWrites, nAggQueries>>
    /\ UNCHANGED unitVars

\* db = DB(): psycopg.connect may raise, and nothing catches it
OpenDB ==
    /\ pc = "opendb"
    /\ \E ok \in BOOLEAN :
           IF ok THEN /\ dbOpen' = TRUE
                      /\ processed_count' = 0
                      /\ cur' = 1
                      /\ pc' = "persist"
                      /\ raised' = raised
                 ELSE /\ raised' = Exception("OperationalError", "DB()")
                      /\ pc' = "raised"
                      /\ UNCHANGED <<dbOpen, processed_count, cur>>
    /\ UNCHANGED <<nCacheReads, nCacheWrites, windowVars, storeVars, threadVars, query, inst, since, collected,
                   sources_status, invoked, failedSrc, delivered, resolveFailed,
                   clean_posts, filter_stats, result, cleanFail, persistFail, visited,
                   attempted, nWrites, nAggQueries>>
    /\ UNCHANGED unitVars

PersistSteps ==
    <<"upsert_post", "score_text", "upsert_sentiment", "compute_embedding", "upsert_embedding">>
StepNo(name) == IndexIn(PersistSteps, name)

\* variant: an exception on one post ends the loop
PersistFailedBreak == cur' = Len(clean_posts) + 1 /\ processed_count' = processed_count

\* except Exception: logger.warning(...); continue
PersistFailed == cur' = cur + 1 /\ processed_count' = processed_count

\* one iteration of `for p in clean_posts:`; `failAt` is the statement that raises,
\* Len(PersistSteps) + 1 when none does
PersistStep ==
    /\ pc = "persist"
    /\ cur <= Len(clean_posts)
    /\ LET i == clean_posts[cur]
           p == collected[i]
           pk == DBUpsertPostId(p)
       IN  \E failAt \in 1..(Len(PersistSteps) + 1) :
               /\ attempted' = attempted \cup {i}
               /\ IF failAt > StepNo("upsert_post")
                  THEN DBUpsertPost(p) ELSE UNCHANGED <<posts, post_counter>>
               /\ IF failAt > StepNo("upsert_sentiment")
                  THEN DBUpsertSentiment(pk, score_text(p.text)) ELSE sentiment' = sentiment
               /\ IF failAt > StepNo("upsert_embedding")
                  THEN DBUpsertEmbedding(pk, compute_embedding(p.text))
                  ELSE embeddings' = embeddings
               /\ nWrites' = nWrites + (IF failAt > StepNo("upsert_post") THEN 1 ELSE 0)
                                     + (IF failAt > StepNo("upsert_sentiment") THEN 1 ELSE 0)
                                     + (IF failAt > StepNo("upsert_embedding") THEN 1 ELSE 0)
               /\ IF failAt <= Len(PersistSteps)
                  THEN /\ persistFail' = persistFail \cup {i}
                       /\ PersistFailed
                  ELSE /\ persistFail' = persistFail
                       /\ processed_count' = processed_count + 1
                       /\ cur' = cur + 1
    /\ UNCHANGED <<nCacheReads, nCacheWrites, pc, windowVars, post_index, lock, now, threadVars, query, inst, since,
                   collected, sources_status, invoked, failedSrc, delivered, resolveFailed,
                   clean_posts, filter_stats, dbOpen, result, raised, cleanFail, visited,
                   nAggQueries>>
    /\ UNCHANGED unitVars

PersistDone ==
    /\ pc = "persist"
    /\ cur > Len(clean_posts)
    /\ pc' = "aggregate"
    /\ UNCHANGED <<nCacheReads, nCacheWrites, windowVars, storeVars, threadVars, query, inst, since, collected,
                   sources_status, invoked, failedSrc, delivered, resolveFailed,
                   clean_posts, filter_stats, cur, processed_count, dbOpen, result, raised,
                   cleanFail, persistFail, visited, attempted, nWrites, nAggQueries>>
    /\ UNCHANGED unitVars

\* result = db.aggregate(inst.symbol, since); result[...] = ...; on an exception: raise
Aggregate ==
    /\ pc = "aggregate"
    /\ nAggQueries' = nAggQueries + 1
    /\ \E ok \in BOOLEAN :
           IF ok
           THEN LET agg == DBAggregate(inst.symbol, since)
                IN  /\ result' = [symbol |-> agg.symbol, window_since |-> agg.window_since,
                                  count |-> agg.count,
                                  weighted_sentiment |-> agg.weighted_sentiment,
                                  resolved_instrument |-> inst,
                                  posts_found |-> Len(collected),
                                  posts_processed |-> processed_count,
                                  sources |-> sources_status]
                    /\ pc' = "returned"
                    /\ raised' = raised
           ELSE /\ raised' = Exception("OperationalError", "aggregate")
                /\ pc' = "raised"
                /\ result' = result
    /\ UNCHANGED <<nCacheReads, nCacheWrites, windowVars, storeVars, threadVars, query, inst, since, collected,
                   sources_status, invoked, failedSrc, delivered, resolveFailed,
                   clean_posts, filter_stats, cur, processed_count, dbOpen, cleanFail,
                   persistFail, visited, attempted, nWrites>>
    /\ UNCHANGED unitVars

InitPipe ==
    /\ window = <<>>
    /\ pwResult = NoValue
    /\ StoreInit /\ ThreadInit /\ PipeInit /\ UnitInit

NextPipe ==
    \/ \E q \in PipeQueries, w \in PipeWindows : Call(q, w)
    \/ Resolve
    \/ ParseWindow
    \/ \E i \in DOMAIN Collectors : Collect(i)
    \/ CheckPosts
    \/ CleanStep
    \/ CleanDone
    \/ OpenDB
    \/ PersistStep
    \/ PersistDone
    \/ Aggregate

SpecPipe == InitPipe /\ [][NextPipe]_vars

(***************************************************************************)
(* Claims about the post store (SpecStore, SpecAgg).                        *)
(***************************************************************************)
RowsWithKey(k) == {pk \in DOMAIN posts : Key(posts[pk]) = k}
AllIdle == \A t \in Threads : tpc[t] = "idle"

\* C6: after any interleaving of upsert_post calls the store holds exactly one post
\* per (source, platform_id) that was upserted, every upsert_post of one key returned
\* the same id, and the stored row is the first upsert's post in every field but the
\* ingestion timestamp.
C6_UpsertPostIdempotent ==
    /\ \A a, b \in DOMAIN posts : Key(posts[a]) = Key(posts[b]) => a = b
    /\ \A r1, r2 \in returned : r1.key = r2.key => r1.pk = r2.pk
    /\ \A k \in DOMAIN firstUpsert :
           /\ Cardinality(RowsWithKey(k)) = 1
           /\ \A pk \in RowsWithKey(k) :
                  /\ posts[pk] = NewRow(pk, firstUpsert[k], posts[pk].ingested_at)
                  /\ \A r \in returned : r.key = k => r.pk = pk

\* C6 witness: a key was upserted twice with different texts after the clock moved,
\* and the row carries the later ingestion time
C6_Witness ==
    /\ AllIdle
    /\ \E r \in returned :
           /\ lastUpsert[r.key].text # firstUpsert[r.key].text
           /\ posts[r.pk].ingested_at > 0
           /\ Cardinality(DOMAIN posts) > 1

\* C7 as stated: one stored post per key, whose text is that of the latest upsert
C7_LatestContentStored ==
    \A k \in DOMAIN lastUpsert :
        /\ Cardinality(RowsWithKey(k)) = 1
        /\ \A pk \in RowsWithKey(k) : posts[pk].text = lastUpsert[k].text

\* C7 amended: two upserts of one key with different texts leave exactly one stored
\* post, and its text and symbols are those of the first of the two upserts
C7_FirstContentStored ==
    \A k \in DOMAIN lastUpsert :
        (lastUpsert[k].text # firstUpsert[k].text) =>
            /\ Cardinality(RowsWithKey(k)) = 1
            /\ \A pk \in RowsWithKey(k) :
                   /\ posts[pk].text = firstUpsert[k].text
                   /\ posts[pk].symbols = firstUpsert[k].symbols

\* C7 witness: the latest upsert of a key carried another text than the stored one
C7_Witness ==
    /\ AllIdle
    /\ \E k \in DOMAIN lastUpsert :
           /\ lastUpsert[k].text # firstUpsert[k].text
           /\ \E pk \in RowsWithKey(k) : posts[pk].symbols # lastUpsert[k].symbols

\* the posts the aggregation is defined over, and the per-source figures
ScoredPosts(symbol, sinceArg) ==
    {pk \in DOMAIN posts : /\ pk \in DOMAIN sentiment
                           /\ symbol \in posts[pk].symbols
                           /\ posts[pk].created_at >= sinceArg}
SourceCount(symbol, sinceArg, src) ==
    Cardinality({pk \in ScoredPosts(symbol, sinceArg) : posts[pk].source = src})

RECURSIVE PolaritySum(_)
PolaritySum(S) ==
    IF S = {} THEN 0
    ELSE LET pk == CHOOSE x \in S : TRUE
         IN  sentiment[pk].polarity + PolaritySum(S \ {pk})

SourceAvgPolarity(symbol, sinceArg, src) ==
    Frac(PolaritySum({pk \in ScoredPosts(symbol, sinceArg) : posts[pk].source = src}),
         SourceCount(symbol, sinceArg, src))

RECURSIVE WeightedTotal(_, _, _)
WeightedTotal(symbol, sinceArg, srcs) ==
    IF srcs = {} THEN FracZero
    ELSE LET src == CHOOSE x \in srcs : TRUE
         IN  FracAdd(FracTimesInt(SourceAvgPolarity(symbol, sinceArg, src),
                                  SourceCount(symbol, sinceArg, src)),
                     WeightedTotal(symbol, sinceArg, srcs \ {src}))

RECURSIVE CountTotal(_, _, _)
CountTotal(symbol, sinceArg, srcs) ==
    IF srcs = {} THEN 0
    ELSE LET src == CHOOSE x \in srcs : TRUE
         IN  SourceCount(symbol, sinceArg, src) + CountTotal(symbol, sinceArg, srcs \ {src})

SourcesOf(symbol, sinceArg) == {posts[pk].source : pk \in ScoredPosts(symbol, sinceArg)}

ExpectedAggregate(symbol, sinceArg) ==
    LET n == CountTotal(symbol, sinceArg, SourcesOf(symbol, sinceArg))
    IN  [count |-> n,
         weighted_sentiment |->
             IF n = 0 THEN FracZero
             ELSE FracOverInt(WeightedTotal(symbol, sinceArg, SourcesOf(symbol, sinceArg)), n)]

RECURSIVE Numeral(_)
Numeral(n) ==
    IF n < 0 THEN <<"-">> \o Numeral(0 - n)
    ELSE IF n < 10 THEN <<DigitChars[n + 1]>>
    ELSE Numeral(n \div 10) \o <<DigitChars[(n % 10) + 1]>>

RECURSIVE TenTo(_)
TenTo(k) == IF k = 0 THEN 1 ELSE 10 * TenTo(k - 1)

\* a string of one or more digits, with or without a sign
IsDecimalInteger(s) ==
    \E i \in 0..1 :
        /\ Len(s) > i
        /\ i = 1 => s[1] \in {"-", "+"}
        /\ \A j \in (i + 1)..Len(s) : IsDigit(s[j])

\* the counts whose numeral fits into a window of MaxWindowLen characters
Counts == (1 - TenTo(MaxWindowLen - 1))..(TenTo(MaxWindowLen - 1) - 1)
NumeralOf == [n \in Counts |-> Numeral(n)]

C10_XyzDefaultsTo24h ==
    (window = <<"x", "y", "z">> /\ pwResult # NoValue) => pwResult = Duration(24)


(***************************************************************************)
(* Claims about aggregate_social (SpecPipe).                                *)
(***************************************************************************)
AllSources == Range(Collectors)

\* the posts the collectors returned, in collector order
DeliveredAll ==
    delivered[Collectors[1]] \o delivered[Collectors[2]] \o delivered[Collectors[3]]
        \o delivered[Collectors[4]]

\* the call has left the collection stage (and did not end before it)
CollectPhaseOver ==
    /\ pc \notin {"idle", "resolve", "window", "collect"}
    /\ ~(pc = "raised" /\ raised.at \in {"resolve", "window"})

\* C1: a collector that raises does not end the call: its exception is caught, its
\* source is recorded with count 0 and contributes no posts, every collector is
\* invoked exactly once whatever subset of them fails, and the collected posts are
\* exactly those the other collectors returned.
C1_CollectorsIsolated ==
    /\ \A c \in AllSources : invoked[c] <= 1
    /\ raised # NoValue => raised.at # "collect"
    /\ CollectPhaseOver =>
           /\ \A c \in AllSources : invoked[c] = 1
           /\ DOMAIN sources_status = AllSources
           /\ \A c \in failedSrc : sources_status[c] = 0 /\ delivered[c] = <<>>
           /\ \A c \in AllSources \ failedSrc : sources_status[c] = Len(delivered[c])
           /\ Len(collected) = Len(DeliveredAll)
           /\ \A i \in DOMAIN collected :
                  /\ Key(collected[i]) = Key(DeliveredAll[i])
                  /\ collected[i].source \notin failedSrc
           /\ pc = "check" => collected = DeliveredAll

C1_Witness ==
    /\ pc = "check"
    /\ failedSrc = {"reddit"}
    /\ Len(delivered["x"]) = 1
    /\ Len(delivered["discord"]) = 1
    /\ Len(collected) = 2

\* whether a post with text t passes both filters once cleaned, for query q
PassesFilters ==
    [t \in PipeTexts, q \in PipeQueries |->
        LET text == normalize_post(t)
            symbols == extract_symbols(text, ResolveFresh(q))
        IN  symbols # {} /\ ~is_probable_bot([text |-> text, symbols |-> symbols])]

\* whether collected post i passes cleaning and both filters
Survives(i) == i \notin cleanFail /\ PassesFilters[DeliveredAll[i].text, query]

Survivors == {i \in DOMAIN collected : Survives(i)}

CleanOver ==
    \/ pc \in {"opendb", "persist", "aggregate"}
    \/ pc = "clean" /\ cur > Len(collected)
    \/ pc = "returned" /\ filter_stats # NoValue
    \/ pc = "raised" /\ raised.at \in {"DB()", "aggregate"}

PersistOver ==
    \/ pc = "aggregate"
    \/ pc = "returned" /\ dbOpen
    \/ pc = "raised" /\ raised.at = "aggregate"

Stored(p) ==
    \E pk \in DOMAIN posts :
        Key(posts[pk]) = Key(p) /\ pk \in DOMAIN sentiment /\ pk \in DOMAIN embeddings

\* C2: an exception raised for one post, in cleaning or in a persist, score or embed
\* step, skips that post only: every post is visited by the cleaning loop, persisting
\* is attempted for every post that survives filtering, and every survivor for which
\* no step raised is stored and counted as processed.
C2_PostFailureIsolated ==
    /\ raised # NoValue => raised.at \notin {"clean", "persist"}
    /\ CleanOver =>
           /\ visited = DOMAIN collected
           /\ Range(clean_posts) = Survivors
           /\ Len(clean_posts) = Cardinality(Survivors)
    /\ PersistOver =>
           /\ attempted = Survivors
           /\ persistFail \subseteq Survivors
           /\ processed_count = Cardinality(Survivors \ persistFail)
           /\ \A i \in Survivors \ persistFail : Stored(collected[i])
    /\ (pc = "returned" /\ dbOpen) => result.posts_processed = processed_count

C2_Witness ==
    /\ pc = "returned"
    /\ Len(collected) = 2
    /\ persistFail = {1}
    /\ attempted = {1, 2}
    /\ result.posts_processed = 1

StoreUntouched ==
    /\ posts = EmptyMap /\ sentiment = EmptyMap /\ embeddings = EmptyMap
    /\ nWrites = 0

\* C3: when resolve raises, the call fails with ValueError: nothing is returned, no
\* collector is invoked and nothing is written to the store.
C3_ResolveFailureAborts ==
    resolveFailed =>
        /\ pc = "raised"
        /\ raised = Exception("ValueError", "resolve")
        /\ result = NoValue
        /\ \A c \in AllSources : invoked[c] = 0
        /\ collected = <<>>
        /\ StoreUntouched
        /\ ~dbOpen
        /\ nAggQueries = 0

C3_Witness ==
    /\ resolveFailed
    /\ pc = "raised"
    /\ raised.type = "ValueError"
    /\ query = SymAAPL

\* C4: when the collectors together yield no posts, the call returns at once with
\* posts_found = 0, posts_processed = 0 and the no-posts error marker; cleaning does
\* not start, the store is not opened or written, and no aggregation query is issued.
C4_NoPostsReturnsEmpty ==
    (CollectPhaseOver /\ pc # "check" /\ Len(DeliveredAll) = 0) =>
        /\ pc = "returned"
        /\ raised = NoValue
        /\ result.posts_found = 0
        /\ result.posts_processed = 0
        /\ result.error = "No posts found for this symbol"
        /\ result.sources = sources_status
        /\ filter_stats = NoValue
        /\ visited = {}
        /\ ~dbOpen
        /\ StoreUntouched
        /\ nAggQueries = 0

C4_Witness ==
    /\ pc = "returned"
    /\ Len(DeliveredAll) = 0
    /\ failedSrc = {"stocktwits"}
    /\ result.posts_found = 0

\* C5: once the collectors have run, every way the call ends reports the count of
\* each of the four sources - also when opening the store or the final aggregation
\* fails.
C5_SourcesAlwaysReported ==
    (CollectPhaseOver /\ pc \in {"returned", "raised"}) =>
        /\ result # NoValue
        /\ DOMAIN result.sources = AllSources
        /\ \A c \in AllSources : result.sources[c] = Len(delivered[c])

\* C11: a call with a malformed window is rejected before any I/O: when the window
\* is refused, no resolver cache read or write was issued, no collector was invoked
\* and the store was not opened.
C11_InvalidInputBeforeIO ==
    (pc = "raised" /\ raised.at = "window") =>
        /\ nCacheReads = 0
        /\ nCacheWrites = 0
        /\ \A c \in AllSources : invoked[c] = 0
        /\ ~dbOpen

\* the result names both drop counts with the values the cleaning loop counted
DropCountsReported ==
    /\ {"no_symbols", "probable_bots"} \subseteq DOMAIN result
    /\ result.no_symbols = filter_stats.no_symbols
    /\ result.probable_bots = filter_stats.probable_bots

\* C12: each post dropped during cleaning is counted under exactly one reason,
\* no_symbols when no symbol was extracted and otherwise probable_bot, and the result
\* that aggregate_social returns reports both counts.
C12_DropCountsInResult ==
    /\ CleanOver =>
           /\ filter_stats.no_symbols + filter_stats.probable_bots + filter_stats.processed
                  + Cardinality(cleanFail) = Len(collected)
           /\ filter_stats.no_symbols =
                  Cardinality({i \in DOMAIN collected \ cleanFail : collected[i].symbols = {}})
           /\ filter_stats.processed = Len(clean_posts)
    /\ (pc = "returned" /\ filter_stats # NoValue) => DropCountsReported

(***************************************************************************)
(* Claims about extract_symbols (SpecClean).                                *)
(***************************************************************************)
\* the uppercase letters that follow a $ at position j, up to the first other character
DollarRun(t, j) == SubSeq(t, j + 1, j + UpperRun(t, j + 1))

\* the positions of the $ that are followed by 1 to 5 uppercase letters and no more
TickerPositions(t) == {j \in DOMAIN t : t[j] = "$" /\ UpperRun(t, j + 1) \in 1..5}

ExpectedPattern(pol, pct7, pct30) ==
    IF pct30 < 0 - 15 /\ pol > 60 THEN [signal |-> "reversal", base |-> 6]
    ELSE IF pct7 > 15 /\ pol > 65 THEN [signal |-> "momentum", base |-> 5]
    ELSE IF pol > 70 /\ 0 - 10 < pct7 /\ pct7 < 10 THEN [signal |-> "emerging_catalyst", base |-> 4]
    ELSE [signal |-> "none", base |-> 0]

\* C15: the symbol is classified into exactly one pattern, reversal before momentum
\* before emerging catalyst, no match giving no opportunity, with conviction
\* min(10, base + 2 x confidence); priceChange30d = -20, polarity 0.7 and confidence
\* 0.5 give reversal with conviction 7.0.
C15_FirstPatternWins ==
    scoreResult # NoValue =>
        LET pd == scoreArgs.price_data
            e == ExpectedPattern(scoreArgs.sentiment_polarity, pd.price_change_pct_7d,
                                 pd.price_change_pct_30d)
        IN  /\ (e.signal = "none") => scoreResult = None
            /\ (e.signal # "none" /\ pd.current_price > 0) =>
                   /\ scoreResult.kind = "OpportunityScore"
                   /\ scoreResult.signal_type = e.signal
                   /\ scoreResult.conviction_score =
                          Min(1000, 100 * e.base + 2 * scoreArgs.sentiment_confidence)
            /\ (pd.price_change_pct_30d = 0 - 20 /\ scoreArgs.sentiment_polarity = 70
                    /\ scoreArgs.sentiment_confidence = 50 /\ pd.current_price > 0) =>
                   /\ scoreResult.kind = "OpportunityScore"
                   /\ scoreResult.signal_type = "reversal"
                   /\ scoreResult.conviction_score = 700

\* C16: every opportunity has stopLoss = 0.9 x entryPrice and reports the position
\* size floor(maxLoss / (entryPrice - stopLoss)) in units; maxLoss 2000 and entryPrice
\* 100 give stopLoss 90 and position size 200; a position size <= 0 gives no
\* opportunity.
C16_PositionSizeInUnits ==
    scoreResult # NoValue =>
        LET pd == scoreArgs.price_data
            e == ExpectedPattern(scoreArgs.sentiment_polarity, pd.price_change_pct_7d,
                                 pd.price_change_pct_30d)
        IN  /\ scoreResult.kind = "OpportunityScore" =>
                   /\ scoreResult.stop_loss = Frac(9 * scoreResult.entry_price, 10)
                   /\ \E f \in DOMAIN scoreResult :
                          /\ f \in {"position_size", "position_size_units"}
                          /\ scoreResult[f] =
                                 (scoreArgs.max_loss_dollars * 1000) \div scoreResult.entry_price
            /\ (e.signal # "none" /\ pd.current_price = 10000
                    /\ scoreArgs.max_loss_dollars = 2000) =>
                   /\ scoreResult.kind = "OpportunityScore"
                   /\ scoreResult.stop_loss = Frac(9000, 1)
            /\ pd.current_price <= 0 => scoreResult.kind # "OpportunityScore"

(***************************************************************************)
(* Claims about scan_market.                                                *)
(***************************************************************************)
\* an iteration that got a usable aggregate and usable price data
Classified(it) == HasKey(it, "price_data") /\ it.price_data # None

\* C14: for every scanned symbol whose aggregate has at least 5 processed posts and
\* usable price data, the polarity the scanner classifies with is the aggregate's
\* weighted sentiment; and a symbol with weighted sentiment 0.7 whose price fell 20%
\* in 30 days is returned by scan_market as a reversal opportunity (min_conviction 5.0,
\* max_results not smaller than the number of symbols).
C14_ScannerUsesWeightedSentiment ==
    \A k \in DOMAIN scanSeen :
        Classified(scanSeen[k]) =>
            /\ scanSeen[k].sentiment_polarity = scanSeen[k].sentiment_result.weighted_sentiment
            /\ (/\ scanPc = "returned"
                /\ min_conviction = 500
                /\ Len(scanSymbols) <= max_results
                /\ scanSeen[k].sentiment_result.weighted_sentiment = 70
                /\ scanSeen[k].price_data.price_change_pct_30d = 0 - 20)
               => \E j \in DOMAIN scanResult.items :
                      /\ scanResult.items[j].symbol = scanSeen[k].symbol
                      /\ scanResult.items[j].signal_type = "reversal"

\* the position in scanSymbols of the iteration that appended the opportunity o
AppendedAt(o) ==
    CHOOSE k \in DOMAIN scanSeen :
        scanSeen[k].outcome = "appended" /\ scanSeen[k].opportunity = o

\* C17: scan_market returns its opportunities in descending order of conviction,
\* equal convictions in the order of the input symbols, at most max_results of them,
\* each with a conviction >= min_conviction, >= 3.5 and <= 10.
C17_RankedAndTruncated ==
    scanPc = "returned" =>
        LET items == scanResult.items
        IN  /\ Len(items) <= max_results
            /\ \A i \in DOMAIN items :
                   /\ items[i].conviction_score >= min_conviction
                   /\ items[i].conviction_score >= 350
                   /\ items[i].conviction_score <= 1000
            /\ \A i, j \in DOMAIN items :
                   i < j =>
                       \/ items[i].conviction_score > items[j].conviction_score
                       \/ /\ items[i].conviction_score = items[j].conviction_score
                          /\ AppendedAt(items[i]) <= AppendedAt(items[j])

\* scan_market returned at least one opportunity
C17_SomethingReturned == scanPc = "returned" /\ scanResult.items # <<>>

(***************************************************************************)
(* Claims about backtest_strategy.                                          *)
(***************************************************************************)
\* the bar's low is at or below 0.9 x entry / its high is at or above pct% x entry
CrossesStop(bar, entry) == ~IsNaN(bar.low) /\ 10 * bar.low <= 9 * entry
CrossesTarget(bar, entry, pct) == ~IsNaN(bar.high) /\ 100 * bar.high >= pct * entry

\* the trades recorded with the price history they were simulated on
SimulatedTrades ==
    UNION {{[hist |-> btSeen[k].hist, trade |-> btSeen[k].trades[n]] :
               n \in DOMAIN btSeen[k].trades} :
           k \in {x \in DOMAIN btSeen : btSeen[x].trades # <<>>}}

\* the dates of the hold period of a trade on which some check matches
MatchingDates(hist, trade) ==
    {d \in (trade.entry_date + 1)..(trade.entry_date + hold_days) :
        \/ CrossesStop(hist[d], trade.entry_price)
        \/ CrossesTarget(hist[d], trade.entry_price, 120)}

\* C20: an entered trade is closed on the first bar after the entry, in date order,
\* on which a check matches, and on that bar stop-loss (low <= 0.9 x entry) is checked
\* before target3, target2 and target1 (high >= 2.0, 1.5, 1.2 x entry); the trade is
\* closed at the matching threshold price on that bar's date.  So a bar crossing the
\* stop-loss and a target exits as stop_loss, and a bar crossing target1 and target3
\* exits at target3.
C20_ExitPriority ==
    \A st \in SimulatedTrades :
        LET t == st.trade
            entry == t.entry_price
            dates == MatchingDates(st.hist, t)
        IN  dates # {} =>
                LET d == CHOOSE x \in dates : \A y \in dates : x <= y
                    bar == st.hist[d]
                IN  /\ t.exit_date = d
                    /\ IF CrossesStop(bar, entry)
                       THEN t.exit_reason = "stop_loss" /\ 10 * t.exit_price = 9 * entry
                       ELSE IF CrossesTarget(bar, entry, 200)
                       THEN t.exit_reason = "target_3" /\ t.exit_price = 2 * entry
                       ELSE IF CrossesTarget(bar, entry, 150)
                       THEN t.exit_reason = "target_2" /\ 10 * t.exit_price = 15 * entry
                       ELSE t.exit_reason = "target_1" /\ 10 * t.exit_price = 12 * entry

\* one trade left by stop_loss on a bar that also crossed target3, and one trade left
\* at target_3 (on a bar that therefore crossed target1 as well)
C20_Witness ==
    /\ \E st \in SimulatedTrades :
           /\ st.trade.exit_reason = "stop_loss"
           /\ CrossesTarget(st.hist[st.trade.exit_date], st.trade.entry_price, 200)
    /\ \E st \in SimulatedTrades :
           /\ st.trade.exit_reason = "target_3"
           /\ CrossesTarget(st.hist[st.trade.exit_date], st.trade.entry_price, 120)

(***************************************************************************)
(* Claims about both scan_market and backtest_strategy.                     *)
(***************************************************************************)
\* the trades listed in the report, none in the report of no trades
ReportedTrades == IF HasKey(btResult, "trades") THEN btResult.trades ELSE <<>>
ReportedOf(symbol) == SelectSeq(ReportedTrades, LAMBDA t : t.symbol = symbol)

\* the entries of a loop iteration that should_enter_trade accepted, and those of them
\* whose simulation raises
Entered(it) == {p \in EntryPositions(it.hist, hold_days) : it.enters[p]}
Failing(it) == {p \in Entered(it) : IsRaised(Trade(it.symbol, it.hist, p, hold_days))}

\* scan_market ran one iteration per input symbol and returned only opportunities that
\* an iteration appended
ScanIsolated ==
    scanPc = "returned" =>
        /\ Len(scanSeen) = Len(scanSymbols)
        /\ \A k \in DOMAIN scanSeen : scanSeen[k].symbol = scanSymbols[k]
        /\ \A j \in DOMAIN scanResult.items :
               \E k \in DOMAIN scanSeen :
                   /\ scanSeen[k].outcome = "appended"
                   /\ scanSeen[k].opportunity = scanResult.items[j]

\* C18 as stated: in scan_market and backtest_strategy a symbol with insufficient data
\* or whose processing raises is excluded from the result, every other symbol is still
\* processed, and the call does not raise.
C18_FailedSymbolExcluded ==
    /\ ScanIsolated
    /\ btPc = "returned" =>
           /\ Len(btSeen) = Len(btSymbols)
           /\ \A k \in DOMAIN btSeen :
                  /\ btSeen[k].symbol = btSymbols[k]
                  /\ btSeen[k].outcome \in {"insufficient", "raised"} =>
                         ReportedOf(btSeen[k].symbol) = <<>>
                  /\ btSeen[k].outcome = "processed" =>
                         {t.entry_date : t \in Range(ReportedOf(btSeen[k].symbol))}
                             = Entered(btSeen[k])

\* C18, amended: a symbol with insufficient data, or whose price history cannot be
\* fetched, contributes nothing to the result; a symbol whose simulation raises
\* contributes to the backtest report exactly the trades entered before the entry that
\* raised; every other symbol is processed in full, and the call does not raise.
C18_FailureEndsSymbolOnly ==
    /\ ScanIsolated
    /\ btPc = "returned" =>
           /\ Len(btSeen) = Len(btSymbols)
           /\ \A k \in DOMAIN btSeen :
                  LET it == btSeen[k]
                      mine == ReportedOf(it.symbol)
                  IN  /\ it.symbol = btSymbols[k]
                      /\ ~HasKey(it, "enters") => mine = <<>>
                      /\ HasKey(it, "enters") =>
                             LET kept == {p \in Entered(it) : \A f \in Failing(it) : p < f}
                             IN  /\ {t.entry_date : t \in Range(mine)} = kept
                                 /\ Len(mine) = Cardinality(kept)

\* backtest_strategy returned after the first symbol raised with a trade already
\* recorded and the second symbol was processed into at least one trade
C18_Witness ==
    /\ btPc = "returned"
    /\ Len(btSeen) = 2
    /\ btSeen[1].outcome = "raised"
    /\ btSeen[1].trades # <<>>
    /\ btSeen[2].outcome = "processed"
    /\ ReportedOf(btSeen[2].symbol) # <<>>

\* C19: scan_market on the empty list returns the empty list; backtest_strategy on the
\* empty list, or on any input for which no trade is generated, returns the explicit
\* empty report (the error marker and total_trades = 0, no statistics) and does not
\* raise.
C19_EmptyInputEmptyReport ==
    /\ (scanPc = "returned" /\ scanSymbols = <<>>) => scanResult.items = <<>>
    /\ (btPc = "returned" /\ \A k \in DOMAIN btSeen : btSeen[k].trades = <<>>) =>
           /\ HasKey(btResult, "error")
           /\ btResult.total_trades = 0
           /\ btResult.symbol_count = Len(btSymbols)
           /\ ~HasKey(btResult, "winning_trades")

\* backtest_strategy returned for two symbols, one with a usable price history on which
\* should_enter_trade accepted no entry, and no trade was generated
C19_Witness ==
    /\ btPc = "returned"
    /\ Len(btSymbols) = 2
    /\ \E k \in DOMAIN btSeen : btSeen[k].outcome = "processed"
    /\ \A k \in DOMAIN btSeen : btSeen[k].trades = <<>>
    /\ HasKey(btResult, "error")

\* C21: when neither the stop-loss nor a target is hit on any of the hold_days bars
\* after the entry bar, the trade closes with reason timeout at the close and the date
\* of the last of those bars (entry position + hold_days).
C21_TimeoutAtLastBar ==
    \A st \in SimulatedTrades :
        MatchingDates(st.hist, st.trade) = {} =>
            /\ st.trade.exit_reason = "timeout"
            /\ st.trade.exit_date = st.trade.entry_date + hold_days
            /\ st.trade.exit_price = st.hist[st.trade.entry_date + hold_days].close

\* C30: the sequence of trades over which backtest_strategy computes its statistics
\* (all_trades) is in non-decreasing order of entry date, whatever the input symbols.
C30_TradesInEntryDateOrder ==
    btPc = "returned" =>
        \A i, j \in DOMAIN all_trades :
            i < j => all_trades[i].entry_date <= all_trades[j].entry_date

\* C27: for a non-empty sequence of trades the reported max drawdown is a defined
\* number, it is <= 0, and it is the minimum over the cumulative-profit curve of
\* (cumulative - runningMax) / |runningMax| (reported in percent), also when the
\* running maximum is 0 at some point.
C27_MaxDrawdownDefined ==
    (btPc = "returned" /\ all_trades # <<>>) =>
        LET dd == btResult.max_drawdown_pct
        IN  /\ dd[2] # 0
            /\ dd[1] <= 0
            /\ \A k \in DOMAIN all_trades :
                   dd[1] * Abs(RunningMax(all_trades, k))
                       <= 100 * dd[2] * (CumulativePnl(all_trades, k)
                                         - RunningMax(all_trades, k))
            /\ \E k \in DOMAIN all_trades :
                   dd[1] * Abs(RunningMax(all_trades, k))
                       = 100 * dd[2] * (CumulativePnl(all_trades, k)
                                        - RunningMax(all_trades, k))

(***************************************************************************)
(* Claims about resolve.                                                    *)
(***************************************************************************)
\* C24: with an empty cache, resolve maps every company name that is a key of
\* SYMBOL_MAP, in any letter case, to the ticker the map gives for it.
C24_CompanyNamesResolve ==
    (resLast # NoValue /\ resLast.cache_empty /\ ~IsRaised(resLast.result)) =>
        \A i \in DOMAIN SYMBOL_MAP :
            UpperStr(resLast.query) = SYMBOL_MAP[i][1] =>
                resLast.result.symbol = SYMBOL_MAP[i][2]

\* C23: resolve returns the instrument cached for the query while the entry is younger
\* than 7 days and does not touch the entry; an entry older than 7 days counts as
\* absent: resolve resolves afresh and caches the result anew.  Reading an entry does
\* not renew it: its age runs from the write.
C23_CacheExpiresAfterSevenDays ==
    (resLast # NoValue /\ ~IsRaised(resLast.result) /\ resLast.prior # None) =>
        LET key == UpperStr(resLast.query)
            age == resLast.at - resLast.prior.at
        IN  /\ age < TTLHours =>
                   /\ resLast.hit
                   /\ resLast.result = resLast.prior.inst
                   /\ cacheWrites[key].at = resLast.prior.at
                   /\ resolver_cache[key].cached_at = resLast.prior.at
            /\ age > TTLHours =>
                   /\ ~resLast.hit
                   /\ resLast.result = ResolveFresh(resLast.query)
                   /\ cacheWrites[key].at = resLast.at
                   /\ resolver_cache[key] = [inst |-> resLast.result, cached_at |-> resLast.at]

\* an entry that was read after it was written is found expired 8 days after the write
C23_Witness ==
    /\ resLast # NoValue
    /\ resLast.prior # None
    /\ resLast.prior.read
    /\ resLast.at - resLast.prior.at > TTLHours
    /\ ~resLast.hit
    /\ resLast.result = ResolveFresh(resLast.query)

\* collected posts the cleaning loop visited without an exception and found no symbol in
NoSymbolPosts == {i \in visited \ cleanFail : collected[i].symbols = {}}

\* C25: every post aggregate_social persists passed both filters: it names at least
\* one symbol, its normalized text has at least 20 characters and at most five "$";
\* a post with no symbols is dropped and counted as no_symbols, also when its text
\* has more than five "$".
C25_PersistedPassedBothFilters ==
    /\ \A pk \in DOMAIN posts :
           /\ Cardinality(posts[pk].symbols) > 0
           /\ Len(posts[pk].text) >= 20
           /\ CountChar(posts[pk].text, "$") <= 5
    /\ filter_stats # NoValue =>
           /\ filter_stats.no_symbols = Cardinality(NoSymbolPosts)
           /\ Range(clean_posts) \cap NoSymbolPosts = {}

\* a post is stored, and the loop dropped a six-dollar post with no symbol
C25_Witness ==
    /\ posts # EmptyMap
    /\ filter_stats # NoValue
    /\ \E i \in NoSymbolPosts : CountChar(collected[i].text, "$") > 5

\* C26: in the in-memory store, after any sequence of upsert_post, upsert_sentiment,
\* upsert_embedding and clear, there is at most one sentiment record per post id and
\* it holds the values of the most recent upsert_sentiment for that id; every id with
\* a sentiment or an embedding is the id of a stored post; and upsert_sentiment for an
\* id that is not a stored post leaves the store unchanged.
C26_SentimentFollowsPosts ==
    /\ \A pk \in DOMAIN sentiment :
           /\ pk \in DOMAIN posts
           /\ pk \in DOMAIN lastScore
           /\ sentiment[pk] = SentimentRow(pk, lastScore[pk])
    /\ DOMAIN embeddings \subseteq DOMAIN posts
    /\ (memLast # NoValue /\ memLast.op = "upsert_sentiment" /\ ~memLast.known)
           => ~memLast.changed

\* upsert_sentiment was just called for an id without a post, while a stored post has
\* a score and an embedding
C26_Witness ==
    /\ memLast # NoValue
    /\ memLast.op = "upsert_sentiment"
    /\ ~memLast.known
    /\ \E pk \in DOMAIN sentiment : sentiment[pk].polarity = 1
    /\ \E pk \in DOMAIN embeddings : pk \in DOMAIN sentiment

\* C28: in a call that starts from an empty store, with no failing cleaning, persist,
\* score or embedding step and every collected post created inside the window, the
\* total count of the final aggregation equals posts_processed, also when collected
\* posts share a (source, platform_id).
C28_CountEqualsProcessed ==
    (/\ pc = "returned"
     /\ dbOpen
     /\ cleanFail = {}
     /\ persistFail = {}
     /\ \A i \in DOMAIN collected : collected[i].created_at >= since)
        => result.count = result.posts_processed

\* C29: after any sequence of aggregate_social calls in which no step fails, the
\* sentiment stored for each post is the score of the text stored for that post, also
\* when a post with the same (source, platform_id) is collected again with another text.
C29_SentimentOfStoredText ==
    \A pk \in DOMAIN sentiment :
        /\ pk \in DOMAIN posts
        /\ sentiment[pk] = SentimentRow(pk, score_text(posts[pk].text))

\* C22: whatever the upstream API answers, also when every reply carries a further
\* next-page token or cursor, each collector's fetch (search_x_bundle,
\* collect_stocktwits, collect_discord) ends after a bounded number of requests and
\* returns the posts gathered so far: after MaxRequests requests, more than any page
\* limit of the collectors allows, no collector is about to send another one.
C22_FetchTerminates ==
    /\ fetchRequests >= MaxRequests => fetchPc = "returned"
    /\ fetchPc = "returned" => fetchResult = [posts |-> fetchPosts]

====
